---- MODULE Spec2Model ----
(***************************************************************************)
(* Research orchestration pipeline of Deep-Research-Agent.                 *)
(*                                                                         *)
(* Two orchestrators are modelled, each as the program counter of its      *)
(* async research() method: ResearchAgent (src/agents/ResearchAgent.js)    *)
(* and DeepResearchAgent (src/agents/DeepResearchAgent.js).  Every `await` *)
(* on a network or completion-service call is a suspension point: a pc     *)
(* label in AwaitPcs.  cancel (abort()/stop()) is another handler of the   *)
(* same single-threaded event loop, so it runs only while research() is    *)
(* suspended at such a label (or is not running).  The remaining labels    *)
(* cut the synchronous code between two awaits into steps; nothing else    *)
(* is enabled at them.                                                     *)
(*                                                                         *)
(* Strings the code slices or searches (titles, host names) are tuples of  *)
(* one-character strings.  A URL is a record [host, path].                 *)
(***************************************************************************)
EXTENDS Integers, Sequences, FiniteSets, TLC

VARIABLES
    agent,         \* "RA" (ResearchAgent) or "DRA" (DeepResearchAgent): which class this run uses
    pc,            \* position of research()
    aborted,       \* ResearchAgent.aborted
    shouldStop,    \* DeepResearchAgent.shouldStop
    isRunning,     \* DeepResearchAgent.isRunning
    state,         \* ResearchAgent.state: [phase, sources, findings, report]
    events,        \* every event emitted so far, in order
    plan,          \* the plan returned by createResearchPlan
    qi,            \* index of the current sub-query (1-based)
    allResults,    \* DeepResearchAgent.executeMultiSourceSearch: allResults
    searchResults, \* DeepResearchAgent.research: searchResults
    toAnalyze,     \* sourcesToAnalyze (RA) / prioritized (DRA)
    si,            \* index of the current source in toAnalyze (1-based)
    content,       \* length of the body fetchContent returned for the current source
    analyzed,      \* DeepResearchAgent.analyzeSourcesDeep: analyzed
    synthesis,     \* the synthesis returned by synthesizeFindings
    report,        \* DeepResearchAgent.generateReport: locals (narrative, followUps)
    outcome,       \* how research() ended: [kind, error, result]
    cancelLog,     \* history: the pc at which each cancel call arrived
    fnIn,          \* input of the pure function under check (SpecFn)
    fnOut          \* its output

vars == <<agent, pc, aborted, shouldStop, isRunning, state, events, plan, qi,
          allResults, searchResults, toAnalyze, si, content, analyzed,
          synthesis, report, outcome, cancelLog, fnIn, fnOut>>

(***************************************************************************)
(* Bounds of the model.                                                    *)
(***************************************************************************)
MaxQueries == 2      \* most sub-queries a plan holds
MaxCancels == 2      \* most cancel calls in one behaviour
MaxListLen == 3      \* longest list handed to prioritizeSources in SpecFn
MaxPlanLen == 11     \* longest searchQueries list the completion service returns in SpecFn

(***************************************************************************)
(* Program constants.                                                      *)
(***************************************************************************)
MaxResults == 8          \* executeMultiSourceSearch: maxResults: 8
TitlePrefixLen == 50     \* deduplicateResults: result.title.slice(0, 50)
MaxToAnalyze == 12       \* analyzeSourcesDeep: maxToAnalyze
RA_MaxToAnalyze == 8     \* analyzeSources: .slice(0, 8)
MinContentLength == 100  \* both agents: content.length compared with 100

(***************************************************************************)
(* Sequences and strings.                                                  *)
(***************************************************************************)
Min(a, b) == IF a < b THEN a ELSE b

Range(s) == {s[i] : i \in 1..Len(s)}

\* Array.prototype.slice(0, n)
Slice(s, n) == SubSeq(s, 1, Min(n, Len(s)))

\* The least i with SubSeq(s, i, i + Len(t) - 1) = t, or 0: String.prototype.indexOf + 1
IndexOf(s, t) ==
    LET hits == {i \in 1..(Len(s) - Len(t) + 1) : SubSeq(s, i, i + Len(t) - 1) = t}
    IN IF hits = {} THEN 0 ELSE CHOOSE i \in hits : \A j \in hits : i <= j

\* String.prototype.includes
Includes(s, t) == IndexOf(s, t) # 0

\* String.prototype.replace(t, ''): the first occurrence only
RemoveFirst(s, t) ==
    LET i == IndexOf(s, t)
    IN IF i = 0 THEN s ELSE SubSeq(s, 1, i - 1) \o SubSeq(s, i + Len(t), Len(s))

wwwDot == <<"w", "w", "w", ".">>
hostWwwA == <<"w", "w", "w", ".", "a", ".", "c", "o", "m">>
hostA == <<"a", ".", "c", "o", "m">>
hostGov == <<"b", ".", "g", "o", "v">>
hostWikipedia == <<"e", "n", ".", "w", "i", "k", "i", "p", "e", "d", "i", "a", ".", "o", "r", "g">>
hostArxiv == <<"a", "r", "x", "i", "v", ".", "o", "r", "g">>
hostHN == <<"n", "e", "w", "s", ".", "y", "c", "o", "m", "b", "i", "n", "a", "t", "o", "r", ".", "c", "o", "m">>
hostReddit == <<"r", "e", "d", "d", "i", "t", ".", "c", "o", "m">>
hostGitHub == <<"g", "i", "t", "h", "u", "b", ".", "c", "o", "m">>

\* assessReliability: the two inline domain lists
highReliability ==
    << <<"w", "i", "k", "i", "p", "e", "d", "i", "a", ".", "o", "r", "g">>,
       <<"a", "r", "x", "i", "v", ".", "o", "r", "g">>,
       <<"n", "a", "t", "u", "r", "e", ".", "c", "o", "m">>,
       <<"s", "c", "i", "e", "n", "c", "e", ".", "o", "r", "g">>,
       <<"g", "o", "v">>,
       <<"e", "d", "u">>,
       <<"b", "b", "c", ".", "c", "o", "m">>,
       <<"r", "e", "u", "t", "e", "r", "s", ".", "c", "o", "m">>,
       <<"n", "y", "t", "i", "m", "e", "s", ".", "c", "o", "m">>,
       <<"g", "i", "t", "h", "u", "b", ".", "c", "o", "m">> >>

mediumReliability ==
    << <<"m", "e", "d", "i", "u", "m", ".", "c", "o", "m">>,
       <<"r", "e", "d", "d", "i", "t", ".", "c", "o", "m">>,
       <<"n", "e", "w", "s", ".", "y", "c", "o", "m", "b", "i", "n", "a", "t", "o", "r", ".", "c", "o", "m">>,
       <<"s", "t", "a", "c", "k", "o", "v", "e", "r", "f", "l", "o", "w", ".", "c", "o", "m">>,
       <<"q", "u", "o", "r", "a", ".", "c", "o", "m">> >>

(***************************************************************************)
(* MultiSourceSearcher: the pure part.                                     *)
(***************************************************************************)

\* extractDomain: new URL(url).hostname.replace('www.', '')
extractDomain(url) == RemoveFirst(url.host, wwwDot)

\* assessReliability(source)
assessReliability(source) ==
    LET domain == extractDomain(source.url)
    IN IF source.sourceEngine \in {"Tavily", "ArXiv", "Wikipedia"} THEN "high"
       ELSE IF \E i \in 1..Len(highReliability) : Includes(domain, highReliability[i]) THEN "high"
       ELSE IF \E i \in 1..Len(mediumReliability) : Includes(domain, mediumReliability[i]) THEN "medium"
       ELSE "standard"

\* deduplicateResults: key = domain + title.slice(0, 50), a string concatenation
dedupKey(result) == extractDomain(result.url) \o Slice(result.title, TitlePrefixLen)

RECURSIVE dedupFrom(_, _)
dedupFrom(results, seen) ==
    IF results = <<>> THEN <<>>
    ELSE LET key == dedupKey(Head(results))
         IN IF key \in seen THEN dedupFrom(Tail(results), seen)
            ELSE <<Head(results)>> \o dedupFrom(Tail(results), seen \cup {key})

deduplicateResults(results) == dedupFrom(results, {})

\* executeMultiSourceSearch: sourcesToUse
sourcesToUse == <<"duckduckgo", "wikipedia", "arxiv", "hackernews", "reddit", "github">>

AdapterNames == Range(sourcesToUse)

\* The source / sourceEngine tags each search<Provider> method puts on its results
sourceTag(name) ==
    CASE name = "tavily" -> "ai-search"
      [] name = "duckduckgo" -> "web"
      [] name = "wikipedia" -> "encyclopedia"
      [] name = "arxiv" -> "academic"
      [] name = "hackernews" -> "tech-news"
      [] name = "reddit" -> "discussion"
      [] name = "github" -> "code"

engineTag(name) ==
    CASE name = "tavily" -> "Tavily"
      [] name = "duckduckgo" -> "DuckDuckGo"
      [] name = "wikipedia" -> "Wikipedia"
      [] name = "arxiv" -> "ArXiv"
      [] name = "hackernews" -> "Hacker News"
      [] name = "reddit" -> "Reddit"
      [] name = "github" -> "GitHub"

\* A provider's answer to one HTTP request: [kind |-> "throw"] (the request or
\* the parse of its body throws) or [kind |-> "ok", items |-> <<[title, url], ...>>].
\* The request itself: settles rejected, or fulfilled with the mapped items.
providerCall(name, resp) ==
    IF resp.kind = "throw"
    THEN [status |-> "rejected", value |-> <<>>]
    ELSE [status |-> "fulfilled",
          value |-> [i \in 1..Len(resp.items) |->
                        [title |-> resp.items[i].title, url |-> resp.items[i].url,
                         source |-> sourceTag(name), sourceEngine |-> engineTag(name)]]]

\* searchDuckDuckGo .. searchGitHub: try { request; map } catch { return [] }
searchProvider(name, resp) ==
    LET r == providerCall(name, resp)
    IN IF r.status = "rejected" THEN [status |-> "fulfilled", value |-> <<>>] ELSE r

\* searchSource: try { switch (source) ... } catch { return [] }
searchSource(name, resp) ==
    LET r == IF name \in AdapterNames \cup {"tavily"}
             THEN searchProvider(name, resp)
             ELSE [status |-> "fulfilled", value |-> <<>>]
    IN IF r.status = "rejected" THEN [status |-> "fulfilled", value |-> <<>>] ELSE r

RECURSIVE Flatten(_)
Flatten(ss) == IF ss = <<>> THEN <<>> ELSE Head(ss) \o Flatten(Tail(ss))

\* A fail-fast join without the catches: Promise.all over the bare requests
searchAll_failFast(sources, resps, maxResults) ==
    LET settled == [i \in 1..Len(sources) |-> providerCall(sources[i], resps[sources[i]])]
    IN IF \E i \in 1..Len(sources) : settled[i].status = "rejected"
       THEN [status |-> "rejected", value |-> <<>>]
       ELSE [status |-> "fulfilled",
             value |-> Slice(deduplicateResults(Flatten([i \in 1..Len(sources) |-> settled[i].value])),
                             maxResults * 2)]

\* searchAll(query, {sources, maxResults}): Promise.allSettled over searchSource,
\* the fulfilled values concatenated in the order of `sources`, deduplicated, sliced.
\* resps[name] is the provider's answer for this query.
searchAll(sources, resps, maxResults) ==
    LET settled == [i \in 1..Len(sources) |-> searchSource(sources[i], resps[sources[i]])]
        kept == [i \in 1..Len(sources) |->
                    IF settled[i].status = "fulfilled" THEN settled[i].value ELSE <<>>]
    IN [status |-> "fulfilled",
        value |-> Slice(deduplicateResults(Flatten(kept)), maxResults * 2)]

(***************************************************************************)
(* DeepResearchAgent.prioritizeSources                                     *)
(***************************************************************************)
reliabilityScore(r) ==
    CASE r = "high" -> 3 [] r = "medium" -> 2 [] r = "standard" -> 1 [] OTHER -> 1

sourceScore(s) ==
    CASE s = "academic" -> 3 [] s = "encyclopedia" -> 2 [] s = "web" -> 1
      [] s = "tech-news" -> 2 [] s = "discussion" -> 1 [] s = "code" -> 2 [] OTHER -> 1

compositeScore(a) == reliabilityScore(a.reliability) + sourceScore(a.source)

\* The comparator with its operands swapped: ascending instead of descending
compareSources_ascending(a, b) == compositeScore(a) - compositeScore(b)

\* The comparator handed to sort: scoreB - scoreA
compareSources(a, b) == compositeScore(b) - compositeScore(a)

\* Array.prototype.sort(cmp) is stable: x goes before the first element that
\* cmp orders after it (`later`: the positions of these), and behind every
\* element that compares equal.
InsertStable(x, sorted, later) ==
    LET at == IF later = {} THEN Len(sorted) + 1
              ELSE CHOOSE i \in later : \A j \in later : i <= j
    IN SubSeq(sorted, 1, at - 1) \o <<x>> \o SubSeq(sorted, at, Len(sorted))

RECURSIVE sortByScore(_)
sortByScore(s) ==
    IF s = <<>> THEN <<>>
    ELSE LET x == s[Len(s)]
             sorted == sortByScore(SubSeq(s, 1, Len(s) - 1))
         IN InsertStable(x, sorted, {i \in 1..Len(sorted) : compareSources(sorted[i], x) > 0})

\* The filter of prioritizeSources: the first result of each url is kept
RECURSIVE uniqueByUrl(_, _)
uniqueByUrl(sources, seen) ==
    IF sources = <<>> THEN <<>>
    ELSE IF Head(sources).url \in seen THEN uniqueByUrl(Tail(sources), seen)
    ELSE <<Head(sources)>> \o uniqueByUrl(Tail(sources), seen \cup {Head(sources).url})

prioritizeSources(sources) == sortByScore(uniqueByUrl(sources, {}))

\* executeMultiSourceSearch, lines 144-149: result.reliability = assessReliability(result)
withReliability(result) ==
    [title |-> result.title, url |-> result.url, source |-> result.source,
     sourceEngine |-> result.sourceEngine, reliability |-> assessReliability(result)]

(***************************************************************************)
(* WebSearcher (the searcher of ResearchAgent): the pure part.             *)
(***************************************************************************)
highlyReliable ==
    << <<"n", "a", "t", "u", "r", "e", ".", "c", "o", "m">>,
       <<"s", "c", "i", "e", "n", "c", "e", ".", "o", "r", "g">>,
       <<"s", "c", "i", "e", "n", "c", "e", "d", "i", "r", "e", "c", "t", ".", "c", "o", "m">>,
       <<"s", "p", "r", "i", "n", "g", "e", "r", ".", "c", "o", "m">>,
       <<"i", "e", "e", "e", ".", "o", "r", "g">>,
       <<"a", "c", "m", ".", "o", "r", "g">>,
       <<"n", "i", "h", ".", "g", "o", "v">>,
       <<"g", "o", "v">>,
       <<"e", "d", "u">>,
       <<"b", "b", "c", ".", "c", "o", "m">>,
       <<"r", "e", "u", "t", "e", "r", "s", ".", "c", "o", "m">>,
       <<"a", "p", "n", "e", "w", "s", ".", "c", "o", "m">>,
       <<"n", "p", "r", ".", "o", "r", "g">>,
       <<"n", "y", "t", "i", "m", "e", "s", ".", "c", "o", "m">>,
       <<"w", "a", "s", "h", "i", "n", "g", "t", "o", "n", "p", "o", "s", "t", ".", "c", "o", "m">>,
       <<"t", "h", "e", "g", "u", "a", "r", "d", "i", "a", "n", ".", "c", "o", "m">>,
       <<"w", "h", "o", ".", "i", "n", "t">>,
       <<"c", "d", "c", ".", "g", "o", "v">>,
       <<"e", "u", "r", "o", "p", "a", ".", "e", "u">> >>

reliable ==
    << <<"w", "i", "k", "i", "p", "e", "d", "i", "a", ".", "o", "r", "g">>,
       <<"b", "r", "i", "t", "a", "n", "n", "i", "c", "a", ".", "c", "o", "m">>,
       <<"n", "a", "t", "i", "o", "n", "a", "l", "g", "e", "o", "g", "r", "a", "p", "h", "i", "c", ".", "c", "o", "m">>,
       <<"f", "o", "r", "b", "e", "s", ".", "c", "o", "m">>,
       <<"b", "l", "o", "o", "m", "b", "e", "r", "g", ".", "c", "o", "m">>,
       <<"e", "c", "o", "n", "o", "m", "i", "s", "t", ".", "c", "o", "m">>,
       <<"m", "e", "d", "i", "u", "m", ".", "c", "o", "m">>,
       <<"s", "u", "b", "s", "t", "a", "c", "k", ".", "c", "o", "m">>,
       <<"a", "r", "x", "i", "v", ".", "o", "r", "g">> >>

\* domain.split('.') then the last part
lastLabel(domain) ==
    LET dots == {i \in 1..Len(domain) : domain[i] = "."}
        last == IF dots = {} THEN 0 ELSE CHOOSE i \in dots : \A j \in dots : j <= i
    IN SubSeq(domain, last + 1, Len(domain))

\* WebSearcher.assessSourceReliability(url)
assessSourceReliability(url) ==
    LET domain == extractDomain(url)
        tld == lastLabel(domain)
    IN IF tld = <<"g", "o", "v">> \/ tld = <<"e", "d", "u">> THEN "high"
       ELSE IF \E i \in 1..Len(highlyReliable) : Includes(domain, highlyReliable[i]) THEN "high"
       ELSE IF \E i \in 1..Len(reliable) : Includes(domain, reliable[i]) THEN "medium"
       ELSE "unknown"

\* WebSearcher.search: try { request; map to [title, url, snippet, domain] } catch { return [] }
webSearch(resp) ==
    IF resp.kind = "throw" THEN <<>>
    ELSE [i \in 1..Len(resp.items) |->
             [title |-> resp.items[i].title, url |-> resp.items[i].url,
              domain |-> extractDomain(resp.items[i].url)]]

\* executeSearches, lines 142-149: a result whose url is not yet in state.sources
\* gets its reliability and is pushed
RECURSIVE pushNew(_, _)
pushNew(sources, results) ==
    IF results = <<>> THEN sources
    ELSE LET r == Head(results)
         IN IF \E i \in 1..Len(sources) : sources[i].url = r.url
            THEN pushNew(sources, Tail(results))
            ELSE pushNew(Append(sources,
                                [title |-> r.title, url |-> r.url, domain |-> r.domain,
                                 reliability |-> assessSourceReliability(r.url)]),
                         Tail(results))

\* analyzeSources, lines 167-170: order = {high: 0, medium: 1, unknown: 2} and
\* (order[x.reliability] || 2): 0 is falsy, so high maps to 2
orderOf(reliability) ==
    LET order == CASE reliability = "high" -> 0 [] reliability = "medium" -> 1
                   [] reliability = "unknown" -> 2 [] OTHER -> 0
    IN IF order = 0 THEN 2 ELSE order

compareReliability(a, b) == orderOf(a.reliability) - orderOf(b.reliability)

RECURSIVE sortByReliability(_)
sortByReliability(s) ==
    IF s = <<>> THEN <<>>
    ELSE LET x == s[Len(s)]
             sorted == sortByReliability(SubSeq(s, 1, Len(s) - 1))
         IN InsertStable(x, sorted, {i \in 1..Len(sorted) : compareReliability(sorted[i], x) > 0})

\* topSources changed: slice(0, K + 1)
topSources_oneMore(ag, ranked) ==
    Slice(ranked, (IF ag = "DRA" THEN MaxToAnalyze ELSE RA_MaxToAnalyze) + 1)

\* analyzeSourcesDeep: sources.slice(0, maxToAnalyze); analyzeSources: .slice(0, 8)
topSources(ag, ranked) ==
    Slice(ranked, IF ag = "DRA" THEN MaxToAnalyze ELSE RA_MaxToAnalyze)

(***************************************************************************)
(* The answers of the outside world the model draws from.                  *)
(***************************************************************************)
Pad == [i \in 1..TitlePrefixLen |-> "x"]
titleLongA == Pad \o <<"a">>      \* two titles that agree on their first 50 characters
titleLongB == Pad \o <<"b">>
Digits == <<"1", "2", "3", "4", "5", "6", "7", "8", "9">>

Url(host, path) == [host |-> host, path |-> path]
Item(title, url) == [title |-> title, url |-> url]
Ok(items) == [kind |-> "ok", items |-> items]
Throws == [kind |-> "throw", items |-> <<>>]

itemA1 == Item(titleLongA, Url(hostWwwA, 1))
itemA2 == Item(titleLongB, Url(hostA, 2))     \* same domain and title prefix as itemA1, another url
itemGov == Item(<<"g">>, Url(hostGov, 1))
itemWiki == Item(<<"w">>, Url(hostWikipedia, 1))
itemArxiv == Item(<<"p">>, Url(hostArxiv, 1))
itemHN == Item(titleLongB, Url(hostA, 3))     \* a story Hacker News links to on a.com
itemReddit == Item(<<"r">>, Url(hostReddit, 1))
itemGitHub == Item(<<"c">>, Url(hostGitHub, 1))

hostOf(name) ==
    CASE name = "duckduckgo" -> hostWwwA
      [] name = "wikipedia" -> hostWikipedia
      [] name = "arxiv" -> hostArxiv
      [] name = "hackernews" -> hostHN
      [] name = "reddit" -> hostReddit
      [] name = "github" -> hostGitHub

oneItem(name) ==
    CASE name = "duckduckgo" -> itemA1
      [] name = "wikipedia" -> itemWiki
      [] name = "arxiv" -> itemArxiv
      [] name = "hackernews" -> itemHN
      [] name = "reddit" -> itemReddit
      [] name = "github" -> itemGitHub

\* maxResults distinct results of one provider
fullPage(name) ==
    [k \in 1..MaxResults |-> Item(<<"n", Digits[k]>>, Url(hostOf(name), 10 + k))]

\* What one provider may answer in SpecFn
ProviderAnswers(name) == {Throws, Ok(<<>>), Ok(<<oneItem(name)>>), Ok(fullPage(name))}

\* The answers of all providers to one sub-query, in the runs of Spec
emptyAnswers == [name \in AdapterNames |-> Ok(<<>>)]
RunAnswers ==
    { emptyAnswers,
      [emptyAnswers EXCEPT !["duckduckgo"] = Ok(<<itemA1>>), !["wikipedia"] = Throws],
      [emptyAnswers EXCEPT !["duckduckgo"] = Ok(<<itemA2>>), !["reddit"] = Ok(<<itemReddit>>),
                           !["arxiv"] = Throws] }

\* The answers of the one provider of WebSearcher.search
RA_RunAnswers == {Throws, Ok(<<itemA1>>), Ok(<<itemGov, itemWiki>>)}

\* generateJSON for the plan: the text does not parse; it parses to null; it parses
\* to an object without a searchQueries array; it parses to a plan of n sub-queries
PlanResponses ==
    {[kind |-> k, n |-> 0] : k \in {"parse_fail", "null", "no_queries"}}
        \cup {[kind |-> "ok", n |-> n] : n \in 0..MaxQueries}

\* fetchContent: the length of content.content ('' on any failure)
ContentLengths == {0, MinContentLength, MinContentLength + 1}

\* generateJSON for one source: no parse; null; an object without keyPoints; a full analysis
AnalysisResponses == {"parse_fail", "null", "no_keypoints", "ok"}

\* generateJSON for the synthesis
SynthResponses == {"parse_fail", "null", "ok"}

\* generate for the narrative; generateJSON for follow-ups and for gaps
GenerateResponses == {"fail", "ok"}
JsonResponses == {"parse_fail", "ok"}

ParseError == "Failed to parse JSON response from Gemini"   \* GeminiClient.generateJSON
ApiError == "Gemini API error"                              \* GeminiClient.generate rethrows
TypeError == "TypeError"                                    \* a property read of null/undefined
StoppedError == "Research stopped by user"                  \* DeepResearchAgent.research

(***************************************************************************)
(* Events (EventEmitter.emit): [type, tag, data].  tag is the phase of a   *)
(* status event, the agent label of a thought, the message of an error;    *)
(* data is the list of payload values.                                     *)
(***************************************************************************)
Ev(type, tag, data) == [type |-> type, tag |-> tag, data |-> data]
Status(phase) == Ev("status", phase, <<>>)
Thought(label) == Ev("thought", label, <<>>)
PlanEv(p) == Ev("plan", "", <<p>>)
SourceEv(result) == Ev("source", "", <<result>>)
FindingEv(title, analysis) == Ev("finding", analysis, <<title>>)
ErrorEv(message) == Ev("error", message, <<>>)
CompleteEv(results) == Ev("complete", "", <<results>>)

SourceEvents(results) == [i \in 1..Len(results) |-> SourceEv(results[i])]

\* The labels at which research() is suspended in an await on the outside world
AwaitPcs == {"plan", "search", "searchDelay", "fetch", "analyze", "analyzeDelay",
             "synth", "report", "followups", "gaps"}

NoOutcome == [kind |-> "none", error |-> "", result |-> <<>>]
Returned(results) == [kind |-> "returned", error |-> "", result |-> <<results>>]
Threw(message) == [kind |-> "threw", error |-> message, result |-> <<>>]

raVars == <<aborted, state>>
draVars == <<shouldStop, isRunning, allResults, searchResults, analyzed, report>>
fnVars == <<fnIn, fnOut>>

(***************************************************************************)
(* Init: both classes constructed, no research() called yet.               *)
(***************************************************************************)
InitAgent ==
    /\ pc = "idle"
    /\ aborted = FALSE
    /\ shouldStop = FALSE
    /\ isRunning = FALSE
    /\ state = [phase |-> "idle", sources |-> <<>>, findings |-> <<>>, report |-> "null"]
    /\ events = <<>>
    /\ plan = [kind |-> "none", n |-> 0]
    /\ qi = 0
    /\ allResults = <<>>
    /\ searchResults = <<>>
    /\ toAnalyze = <<>>
    /\ si = 0
    /\ content = 0
    /\ analyzed = <<>>
    /\ synthesis = "none"
    /\ report = [markdown |-> "none", followUpQuestions |-> "none", knowledgeGaps |-> "none"]
    /\ outcome = NoOutcome
    /\ cancelLog = <<>>

Init ==
    /\ agent \in {"RA", "DRA"}
    /\ InitAgent
    /\ fnIn = [fn |-> "none", answers |-> emptyAnswers, list |-> <<>>, arg |-> <<>>]
    /\ fnOut = <<>>

(***************************************************************************)
(* ResearchAgent                                                           *)
(***************************************************************************)

\* getResults(): the fields of this.state and the stats computed from them
getResults(st) ==
    [phase |-> st.phase, sources |-> st.sources, findings |-> st.findings,
     report |-> st.report,
     stats |-> [sourcesFound |-> Len(st.sources),
                sourcesAnalyzed |-> Len(st.findings),
                highReliabilitySources |->
                    Cardinality({i \in 1..Len(st.sources) : st.sources[i].reliability = "high"})]]

\* abort(): sets the flag and emits a status event, on every call
RA_abort ==
    /\ agent = "RA"
    /\ pc \in AwaitPcs \cup {"idle"}
    /\ Len(cancelLog) < MaxCancels
    /\ aborted' = TRUE
    /\ events' = Append(events, Status("aborted"))
    /\ cancelLog' = Append(cancelLog, pc)
    /\ UNCHANGED <<agent, pc, state, plan, qi, toAnalyze, si, content, synthesis,
                   outcome, draVars, fnVars>>

\* RA_catch changed: the catch block rethrows without emitting the error event
RA_catch_silent(message, evs) ==
    /\ state' = [state EXCEPT !.phase = "error"]
    /\ events' = evs
    /\ outcome' = Threw(message)
    /\ pc' = "done"

\* research(), catch block (lines 88-92); evs: the events emitted so far.
\* emit('error') is delivered to a registered listener.
RA_catch(message, evs) ==
    /\ state' = [state EXCEPT !.phase = "error"]
    /\ events' = Append(evs, ErrorEv(message))
    /\ outcome' = Threw(message)
    /\ pc' = "done"

\* `if (this.aborted) return this.getResults();`
RA_returnAborted ==
    /\ outcome' = Returned(getResults(state))
    /\ pc' = "done"
    /\ UNCHANGED <<state, events>>

\* research(), lines 35-52: reset, status planning, createResearchPlan up to its await
RA_research ==
    /\ agent = "RA"
    /\ pc = "idle"
    /\ aborted' = FALSE
    /\ state' = [phase |-> "starting", sources |-> <<>>, findings |-> <<>>, report |-> "null"]
    /\ events' = Append(events, Status("planning"))
    /\ pc' = "plan"
    /\ UNCHANGED <<agent, plan, qi, toAnalyze, si, content, synthesis, outcome,
                   cancelLog, draVars, fnVars>>

\* createResearchPlan, lines 118-125: generateJSON settles; plan.searchQueries.length
\* and plan.focusAreas.join throw on a plan of another shape
RA_planReturn ==
    /\ agent = "RA"
    /\ pc = "plan"
    /\ \E resp \in PlanResponses :
        /\ plan' = resp
        /\ IF resp.kind = "parse_fail" THEN RA_catch(ParseError, events)
           ELSE IF resp.kind # "ok" THEN RA_catch(TypeError, events)
           ELSE /\ events' = Append(events, Thought("Planner"))
                /\ pc' = "b1"
                /\ UNCHANGED <<state, outcome>>
    /\ UNCHANGED <<agent, aborted, qi, toAnalyze, si, content, synthesis,
                   cancelLog, draVars, fnVars>>

\* RA_b1 changed: the plan event is emitted after the status event of Search
RA_b1_planAfterStatus ==
    /\ agent = "RA"
    /\ pc = "b1"
    /\ IF aborted THEN RA_returnAborted /\ qi' = qi
       ELSE /\ events' = events \o <<Status("searching"), PlanEv(plan)>>
            /\ qi' = 1
            /\ pc' = "searchHead"
            /\ UNCHANGED <<state, outcome>>
    /\ UNCHANGED <<agent, aborted, plan, toAnalyze, si, content, synthesis,
                   cancelLog, draVars, fnVars>>

\* research(), lines 54-59: check, plan event, status searching, into executeSearches
RA_b1 ==
    /\ agent = "RA"
    /\ pc = "b1"
    /\ IF aborted THEN RA_returnAborted /\ qi' = qi
       ELSE /\ events' = events \o <<PlanEv(plan), Status("searching")>>
            /\ qi' = 1
            /\ pc' = "searchHead"
            /\ UNCHANGED <<state, outcome>>
    /\ UNCHANGED <<agent, aborted, plan, toAnalyze, si, content, synthesis,
                   cancelLog, draVars, fnVars>>

\* executeSearches, the head of the for loop (132-140) and the code behind it (155-158)
RA_searchHead ==
    /\ agent = "RA"
    /\ pc = "searchHead"
    /\ events' = Append(events, Thought("Searcher"))
    /\ pc' = IF qi <= plan.n /\ ~aborted THEN "search" ELSE "b2"
    /\ UNCHANGED <<agent, aborted, state, plan, qi, toAnalyze, si, content, synthesis,
                   outcome, cancelLog, draVars, fnVars>>

\* executeSearches, lines 140-152: searcher.search settles; new urls are pushed and emitted
RA_searchReturn ==
    /\ agent = "RA"
    /\ pc = "search"
    /\ \E resp \in RA_RunAnswers :
        LET sources == pushNew(state.sources, webSearch(resp))
        IN /\ state' = [state EXCEPT !.sources = sources]
           /\ events' = events \o SourceEvents(SubSeq(sources, Len(state.sources) + 1, Len(sources)))
    /\ pc' = "searchDelay"
    /\ UNCHANGED <<agent, aborted, plan, qi, toAnalyze, si, content, synthesis,
                   outcome, cancelLog, draVars, fnVars>>

\* executeSearches, line 152: delay(500) is over; next sub-query
RA_searchDelay ==
    /\ agent = "RA"
    /\ pc = "searchDelay"
    /\ qi' = qi + 1
    /\ pc' = "searchHead"
    /\ UNCHANGED <<agent, aborted, state, events, plan, toAnalyze, si, content, synthesis,
                   outcome, cancelLog, draVars, fnVars>>

\* research(), lines 61-65, and analyzeSources, lines 166-171: state.sources is sorted
\* in place, its first 8 are taken
RA_b2 ==
    /\ agent = "RA"
    /\ pc = "b2"
    /\ IF aborted THEN RA_returnAborted /\ UNCHANGED <<toAnalyze, si>>
       ELSE LET sorted == sortByReliability(state.sources)
            IN /\ events' = Append(events, Status("analyzing"))
               /\ state' = [state EXCEPT !.sources = sorted]
               /\ toAnalyze' = topSources("RA", sorted)
               /\ si' = 1
               /\ pc' = "analyzeHead"
               /\ UNCHANGED outcome
    /\ UNCHANGED <<agent, aborted, plan, qi, content, synthesis, cancelLog, draVars, fnVars>>

\* analyzeSources, the head of the for loop (173-182) and the code behind it (211-214)
RA_analyzeHead ==
    /\ agent = "RA"
    /\ pc = "analyzeHead"
    /\ events' = Append(events, Thought("Analyzer"))
    /\ pc' = IF si <= Len(toAnalyze) /\ ~aborted THEN "fetch" ELSE "b3"
    /\ UNCHANGED <<agent, aborted, state, plan, qi, toAnalyze, si, content, synthesis,
                   outcome, cancelLog, draVars, fnVars>>

\* analyzeSources, lines 182-186: fetchContent settles; `continue` skips the delay
RA_fetchReturn ==
    /\ agent = "RA"
    /\ pc = "fetch"
    /\ \E len \in ContentLengths :
        /\ content' = len
        /\ IF len = 0 \/ len < MinContentLength
           THEN si' = si + 1 /\ pc' = "analyzeHead"
           ELSE si' = si /\ pc' = "analyze"
    /\ UNCHANGED <<agent, aborted, state, events, plan, qi, toAnalyze, synthesis,
                   outcome, cancelLog, draVars, fnVars>>


\* RA_analyzeReturn changed: analyzeContent without its try/catch, a parse failure
\* reaches research()
RA_analyzeReturn_noCatch ==
    /\ agent = "RA"
    /\ pc = "analyze"
    /\ \E resp \in AnalysisResponses :
        LET source == toAnalyze[si]
        IN IF resp = "parse_fail"
           THEN RA_catch(ParseError, events)
           ELSE /\ IF resp = "ok"
                   THEN /\ state' = [state EXCEPT !.findings =
                                        Append(@, [source |-> source, analysis |-> resp])]
                        /\ events' = Append(events, FindingEv(source.title, resp))
                   ELSE UNCHANGED <<state, events>>
                /\ pc' = "analyzeDelay"
                /\ UNCHANGED outcome
    /\ UNCHANGED <<agent, aborted, plan, qi, toAnalyze, si, content, synthesis,
                   cancelLog, draVars, fnVars>>

\* analyzeContent (its catch returns null) and analyzeSources, lines 189-206
RA_analyzeReturn ==
    /\ agent = "RA"
    /\ pc = "analyze"
    /\ \E resp \in AnalysisResponses :
        LET analysis == IF resp = "parse_fail" THEN "null" ELSE resp
            source == toAnalyze[si]
        IN IF analysis = "ok"
           THEN /\ state' = [state EXCEPT !.findings =
                                Append(@, [source |-> source, analysis |-> analysis])]
                /\ events' = Append(events, FindingEv(source.title, analysis))
           ELSE UNCHANGED <<state, events>>
    /\ pc' = "analyzeDelay"
    /\ UNCHANGED <<agent, aborted, plan, qi, toAnalyze, si, content, synthesis,
                   outcome, cancelLog, draVars, fnVars>>

\* analyzeSources, line 208: delay(300) is over; next source
RA_analyzeDelay ==
    /\ agent = "RA"
    /\ pc = "analyzeDelay"
    /\ si' = si + 1
    /\ pc' = "analyzeHead"
    /\ UNCHANGED <<agent, aborted, state, events, plan, qi, toAnalyze, content, synthesis,
                   outcome, cancelLog, draVars, fnVars>>


\* RA_b3 changed: synthesizeFindings without the short cut for an empty findings list
RA_b3_alwaysCalls ==
    /\ agent = "RA"
    /\ pc = "b3"
    /\ IF aborted THEN RA_returnAborted /\ UNCHANGED synthesis
       ELSE /\ events' = events \o <<Status("synthesizing"), Thought("Synthesizer")>>
            /\ pc' = "synth"
            /\ UNCHANGED <<state, outcome, synthesis>>
    /\ UNCHANGED <<agent, aborted, plan, qi, toAnalyze, si, content, cancelLog, draVars, fnVars>>

\* research(), lines 67-71, and synthesizeFindings up to its await (252-296): with no
\* findings the canned synthesis is returned without a call
RA_b3 ==
    /\ agent = "RA"
    /\ pc = "b3"
    /\ IF aborted THEN RA_returnAborted /\ UNCHANGED synthesis
       ELSE IF Len(state.findings) = 0
       THEN /\ events' = Append(events, Status("synthesizing"))
            /\ synthesis' = "canned"
            /\ pc' = "b4"
            /\ UNCHANGED <<state, outcome>>
       ELSE /\ events' = events \o <<Status("synthesizing"), Thought("Synthesizer")>>
            /\ pc' = "synth"
            /\ UNCHANGED <<state, outcome, synthesis>>
    /\ UNCHANGED <<agent, aborted, plan, qi, toAnalyze, si, content, cancelLog, draVars, fnVars>>

\* synthesizeFindings, line 296: generateJSON settles; no local recovery
RA_synthReturn ==
    /\ agent = "RA"
    /\ pc = "synth"
    /\ \E resp \in SynthResponses :
        IF resp = "parse_fail" THEN RA_catch(ParseError, events) /\ UNCHANGED synthesis
        ELSE /\ synthesis' = resp
             /\ pc' = "b4"
             /\ UNCHANGED <<state, events, outcome>>
    /\ UNCHANGED <<agent, aborted, plan, qi, toAnalyze, si, content, cancelLog, draVars, fnVars>>


\* RA_b4 changed: the boundary after Synthesis announces the Analysis phase again
RA_b4_wrongPhase ==
    /\ agent = "RA"
    /\ pc = "b4"
    /\ IF aborted THEN RA_returnAborted
       ELSE /\ events' = events \o <<Status("analyzing"), Thought("Writer")>>
            /\ pc' = "report"
            /\ UNCHANGED <<state, outcome>>
    /\ UNCHANGED <<agent, aborted, plan, qi, toAnalyze, si, content, synthesis,
                   cancelLog, draVars, fnVars>>

\* research(), lines 73-77, and generateReport up to its await (303-330)
RA_b4 ==
    /\ agent = "RA"
    /\ pc = "b4"
    /\ IF aborted THEN RA_returnAborted
       ELSE /\ events' = events \o <<Status("reporting"), Thought("Writer")>>
            /\ pc' = "report"
            /\ UNCHANGED <<state, outcome>>
    /\ UNCHANGED <<agent, aborted, plan, qi, toAnalyze, si, content, synthesis,
                   cancelLog, draVars, fnVars>>

\* generateReport, lines 330-337, and research(), lines 79-86: no check of the flag
RA_reportReturn ==
    /\ agent = "RA"
    /\ pc = "report"
    /\ \E resp \in GenerateResponses :
        IF resp = "fail" THEN RA_catch(ApiError, events)
        ELSE LET st == [state EXCEPT !.report = "markdown", !.phase = "complete"]
             IN /\ state' = st
                /\ events' = events \o <<Status("complete"), CompleteEv(getResults(st))>>
                /\ outcome' = Returned(getResults(st))
                /\ pc' = "done"
    /\ UNCHANGED <<agent, aborted, plan, qi, toAnalyze, si, content, synthesis,
                   cancelLog, draVars, fnVars>>

RA_Next ==
    \/ RA_research \/ RA_planReturn \/ RA_b1 \/ RA_searchHead \/ RA_searchReturn
    \/ RA_searchDelay \/ RA_b2 \/ RA_analyzeHead \/ RA_fetchReturn \/ RA_analyzeReturn
    \/ RA_analyzeDelay \/ RA_b3 \/ RA_synthReturn \/ RA_b4 \/ RA_reportReturn
    \/ RA_abort

(***************************************************************************)
(* DeepResearchAgent                                                       *)
(***************************************************************************)

\* stop(): sets the flag, nothing else
DRA_stop ==
    /\ agent = "DRA"
    /\ pc \in AwaitPcs \cup {"idle"}
    /\ Len(cancelLog) < MaxCancels
    /\ shouldStop' = TRUE
    /\ cancelLog' = Append(cancelLog, pc)
    /\ UNCHANGED <<agent, pc, events, plan, qi, toAnalyze, si, content, synthesis, outcome,
                   isRunning, allResults, searchResults, analyzed, report, raVars, fnVars>>

\* DRA_catch changed: no finally block, a run that throws leaves isRunning as it was
DRA_catch_noFinally(message, evs) ==
    /\ events' = Append(evs, ErrorEv(message))
    /\ UNCHANGED isRunning
    /\ outcome' = Threw(message)
    /\ pc' = "done"

\* research(), catch and finally (lines 85-90); evs: the events emitted so far
DRA_catch(message, evs) ==
    /\ events' = Append(evs, ErrorEv(message))
    /\ isRunning' = FALSE
    /\ outcome' = Threw(message)
    /\ pc' = "done"

\* An entry of `analyzed`: { ...source, analysis }
analyzedEntry(source, analysis) ==
    [title |-> source.title, url |-> source.url, source |-> source.source,
     sourceEngine |-> source.sourceEngine, reliability |-> source.reliability,
     analysis |-> analysis]

\* s => s.analysis: null is falsy, an object is truthy
hasAnalysis(s) == s.analysis # "null"

\* research(), lines 59-80: the results object
compileResults(rep, syn, found, done) ==
    [report |-> rep,
     synthesis |-> syn,
     sources |-> [i \in 1..Len(done) |->
                     [title |-> done[i].title, url |-> done[i].url, source |-> done[i].source,
                      sourceEngine |-> done[i].sourceEngine, reliability |-> done[i].reliability]],
     findings |-> SelectSeq(done, hasAnalysis),
     stats |-> [totalSources |-> Len(found),
                sourcesAnalyzed |-> Len(done),
                highReliabilitySources |->
                    Cardinality({i \in 1..Len(done) : done[i].reliability = "high"})]]

\* research(), lines 21-31, and createResearchPlan up to its await (97-118)
DRA_research ==
    /\ agent = "DRA"
    /\ pc = "idle"
    /\ isRunning' = TRUE
    /\ shouldStop' = FALSE
    /\ events' = events \o <<Status("initializing"), Status("planning"), Thought("Planner")>>
    /\ pc' = "plan"
    /\ UNCHANGED <<agent, plan, qi, toAnalyze, si, content, synthesis, outcome, cancelLog,
                   allResults, searchResults, analyzed, report, raVars, fnVars>>

\* createResearchPlan, lines 118-121, and research(), line 32: result.searchQueries
\* throws on null; an object without searchQueries is returned as the plan
DRA_planReturn ==
    /\ agent = "DRA"
    /\ pc = "plan"
    /\ \E resp \in PlanResponses :
        /\ plan' = resp
        /\ IF resp.kind = "parse_fail" THEN DRA_catch(ParseError, events)
           ELSE IF resp.kind = "null" THEN DRA_catch(TypeError, events)
           ELSE /\ events' = events \o <<Thought("Planner"), PlanEv(resp)>>
                /\ pc' = "b1"
                /\ UNCHANGED <<isRunning, outcome>>
    /\ UNCHANGED <<agent, qi, toAnalyze, si, content, synthesis, cancelLog,
                   shouldStop, allResults, searchResults, analyzed, report, raVars, fnVars>>

\* research(), lines 34-38, and executeMultiSourceSearch, lines 128-131: queries.length
\* throws when the plan has no searchQueries
DRA_b1 ==
    /\ agent = "DRA"
    /\ pc = "b1"
    /\ IF shouldStop THEN DRA_catch(StoppedError, events) /\ UNCHANGED <<qi, allResults>>
       ELSE IF plan.kind = "no_queries"
       THEN DRA_catch(TypeError, Append(events, Status("searching")))
            /\ UNCHANGED <<qi, allResults>>
       ELSE /\ events' = Append(events, Status("searching"))
            /\ allResults' = <<>>
            /\ qi' = 1
            /\ pc' = "searchHead"
            /\ UNCHANGED <<isRunning, outcome>>
    /\ UNCHANGED <<agent, plan, toAnalyze, si, content, synthesis, cancelLog,
                   shouldStop, searchResults, analyzed, report, raVars, fnVars>>

\* DRA_searchHead changed: the loop does not look at the flag
DRA_searchHead_noFlagCheck ==
    /\ agent = "DRA"
    /\ pc = "searchHead"
    /\ IF qi <= plan.n
       THEN /\ events' = events \o <<Thought("Searcher"), Status("searching")>>
            /\ pc' = "search"
            /\ UNCHANGED searchResults
       ELSE /\ searchResults' = prioritizeSources(allResults)
            /\ pc' = "b2"
            /\ UNCHANGED events
    /\ UNCHANGED <<agent, plan, qi, toAnalyze, si, content, synthesis, outcome, cancelLog,
                   shouldStop, isRunning, allResults, analyzed, report, raVars, fnVars>>

\* executeMultiSourceSearch, the head of the for loop (131-139) and the return (161)
DRA_searchHead ==
    /\ agent = "DRA"
    /\ pc = "searchHead"
    /\ IF qi <= plan.n /\ ~shouldStop
       THEN /\ events' = events \o <<Thought("Searcher"), Status("searching")>>
            /\ pc' = "search"
            /\ UNCHANGED searchResults
       ELSE /\ searchResults' = prioritizeSources(allResults)
            /\ pc' = "b2"
            /\ UNCHANGED events
    /\ UNCHANGED <<agent, plan, qi, toAnalyze, si, content, synthesis, outcome, cancelLog,
                   shouldStop, isRunning, allResults, analyzed, report, raVars, fnVars>>

\* executeMultiSourceSearch, lines 138-154: searchAll settles
DRA_searchReturn ==
    /\ agent = "DRA"
    /\ pc = "search"
    /\ \E answers \in RunAnswers :
        LET r == searchAll(sourcesToUse, answers, MaxResults)
            results == [i \in 1..Len(r.value) |-> withReliability(r.value[i])]
        IN IF r.status = "fulfilled"
           THEN /\ allResults' = allResults \o results
                /\ events' = (events \o SourceEvents(results)) \o <<Thought("Searcher")>>
           ELSE /\ events' = Append(events, Thought("Searcher"))
                /\ UNCHANGED allResults
    /\ pc' = "searchDelay"
    /\ UNCHANGED <<agent, plan, qi, toAnalyze, si, content, synthesis, outcome, cancelLog,
                   shouldStop, isRunning, searchResults, analyzed, report, raVars, fnVars>>

\* DRA_searchDelay changed: the delay does not resolve once the flag is set
DRA_searchDelay_stuckOnStop ==
    /\ agent = "DRA"
    /\ pc = "searchDelay"
    /\ ~shouldStop
    /\ qi' = qi + 1
    /\ pc' = "searchHead"
    /\ UNCHANGED <<agent, events, plan, toAnalyze, si, content, synthesis, outcome, cancelLog,
                   draVars, raVars, fnVars>>

\* executeMultiSourceSearch, line 157: delay(300) is over; next sub-query
DRA_searchDelay ==
    /\ agent = "DRA"
    /\ pc = "searchDelay"
    /\ qi' = qi + 1
    /\ pc' = "searchHead"
    /\ UNCHANGED <<agent, events, plan, toAnalyze, si, content, synthesis, outcome, cancelLog,
                   draVars, raVars, fnVars>>

\* research(), lines 40-44, and analyzeSourcesDeep, lines 193-195
DRA_b2 ==
    /\ agent = "DRA"
    /\ pc = "b2"
    /\ IF shouldStop THEN DRA_catch(StoppedError, events) /\ UNCHANGED <<toAnalyze, si, analyzed>>
       ELSE /\ events' = Append(events, Status("analyzing"))
            /\ toAnalyze' = topSources("DRA", searchResults)
            /\ analyzed' = <<>>
            /\ si' = 1
            /\ pc' = "analyzeHead"
            /\ UNCHANGED <<isRunning, outcome>>
    /\ UNCHANGED <<agent, plan, qi, content, synthesis, cancelLog,
                   shouldStop, allResults, searchResults, report, raVars, fnVars>>

\* analyzeSourcesDeep, the head of the for loop (197-205) and the return (237)
DRA_analyzeHead ==
    /\ agent = "DRA"
    /\ pc = "analyzeHead"
    /\ IF si <= Len(toAnalyze) /\ ~shouldStop
       THEN /\ events' = Append(events, Status("analyzing"))
            /\ pc' = "fetch"
       ELSE /\ pc' = "b3"
            /\ UNCHANGED events
    /\ UNCHANGED <<agent, plan, qi, toAnalyze, si, content, synthesis, outcome, cancelLog,
                   draVars, raVars, fnVars>>

\* DRA_fetchReturn changed: analyzeContent is called but not awaited, the loop goes on
DRA_fetchReturn_noAwait ==
    /\ agent = "DRA"
    /\ pc = "fetch"
    /\ \E len \in ContentLengths :
        /\ content' = len
        /\ IF len # 0 /\ len > MinContentLength
           THEN pc' = "analyzeDelay" /\ UNCHANGED analyzed
           ELSE /\ analyzed' = Append(analyzed, analyzedEntry(toAnalyze[si], "null"))
                /\ pc' = "analyzeDelay"
    /\ UNCHANGED <<agent, events, plan, qi, toAnalyze, si, synthesis, outcome, cancelLog,
                   shouldStop, isRunning, allResults, searchResults, report, raVars, fnVars>>

\* analyzeSourcesDeep, lines 205-209 and 227-229: fetchContent settles
DRA_fetchReturn ==
    /\ agent = "DRA"
    /\ pc = "fetch"
    /\ \E len \in ContentLengths :
        /\ content' = len
        /\ IF len # 0 /\ len > MinContentLength
           THEN pc' = "analyze" /\ UNCHANGED analyzed
           ELSE /\ analyzed' = Append(analyzed, analyzedEntry(toAnalyze[si], "null"))
                /\ pc' = "analyzeDelay"
    /\ UNCHANGED <<agent, events, plan, qi, toAnalyze, si, synthesis, outcome, cancelLog,
                   shouldStop, isRunning, allResults, searchResults, report, raVars, fnVars>>

\* analyzeSourcesDeep, lines 209-232: analyzeContent settles.  A rejection goes to the
\* catch (231).  A value of null is pushed and emitted (211-221), then
\* analysis.keyPoints throws (225) and the catch pushes the source once more.
DRA_analyzeReturn ==
    /\ agent = "DRA"
    /\ pc = "analyze"
    /\ \E resp \in AnalysisResponses :
        LET source == toAnalyze[si]
        IN IF resp = "parse_fail"
           THEN /\ analyzed' = Append(analyzed, analyzedEntry(source, "null"))
                /\ UNCHANGED events
           ELSE IF resp = "null"
           THEN /\ analyzed' = analyzed \o <<analyzedEntry(source, "null"),
                                             analyzedEntry(source, "null")>>
                /\ events' = Append(events, FindingEv(source.title, "null"))
           ELSE /\ analyzed' = Append(analyzed, analyzedEntry(source, resp))
                /\ events' = events \o <<FindingEv(source.title, resp), Thought("Analyzer")>>
    /\ pc' = "analyzeDelay"
    /\ UNCHANGED <<agent, plan, qi, toAnalyze, si, content, synthesis, outcome, cancelLog,
                   shouldStop, isRunning, allResults, searchResults, report, raVars, fnVars>>

\* analyzeSourcesDeep, line 234: delay(200) is over; next source
DRA_analyzeDelay ==
    /\ agent = "DRA"
    /\ pc = "analyzeDelay"
    /\ si' = si + 1
    /\ pc' = "analyzeHead"
    /\ UNCHANGED <<agent, events, plan, qi, toAnalyze, content, synthesis, outcome, cancelLog,
                   draVars, raVars, fnVars>>

\* research(), lines 46-50, and synthesizeFindings up to its await (273-314): with no
\* analysed source the canned synthesis is returned without a call
DRA_b3 ==
    /\ agent = "DRA"
    /\ pc = "b3"
    /\ IF shouldStop THEN DRA_catch(StoppedError, events) /\ UNCHANGED synthesis
       ELSE /\ events' = events \o <<Status("synthesizing"), Thought("Synthesizer")>>
            /\ IF Len(SelectSeq(analyzed, hasAnalysis)) = 0
               THEN synthesis' = "canned" /\ pc' = "b4"
               ELSE pc' = "synth" /\ UNCHANGED synthesis
            /\ UNCHANGED <<isRunning, outcome>>
    /\ UNCHANGED <<agent, plan, qi, toAnalyze, si, content, cancelLog,
                   shouldStop, allResults, searchResults, analyzed, report, raVars, fnVars>>

\* synthesizeFindings, lines 314-317: generateJSON settles; synthesis.consensus
\* throws on null; no local recovery
DRA_synthReturn ==
    /\ agent = "DRA"
    /\ pc = "synth"
    /\ \E resp \in SynthResponses :
        IF resp = "parse_fail" THEN DRA_catch(ParseError, events) /\ UNCHANGED synthesis
        ELSE IF resp = "null" THEN DRA_catch(TypeError, events) /\ UNCHANGED synthesis
        ELSE /\ synthesis' = resp
             /\ events' = Append(events, Thought("Synthesizer"))
             /\ pc' = "b4"
             /\ UNCHANGED <<isRunning, outcome>>
    /\ UNCHANGED <<agent, plan, qi, toAnalyze, si, content, cancelLog,
                   shouldStop, allResults, searchResults, analyzed, report, raVars, fnVars>>

\* research(), lines 52-56, and generateReport up to its first await (324-355)
DRA_b4 ==
    /\ agent = "DRA"
    /\ pc = "b4"
    /\ IF shouldStop THEN DRA_catch(StoppedError, events)
       ELSE /\ events' = events \o <<Status("reporting"), Thought("Writer")>>
            /\ pc' = "report"
            /\ UNCHANGED <<isRunning, outcome>>
    /\ UNCHANGED <<agent, plan, qi, toAnalyze, si, content, synthesis, cancelLog,
                   shouldStop, allResults, searchResults, analyzed, report, raVars, fnVars>>

\* generateReport, lines 355-359: generate settles; then the follow-up request
DRA_reportReturn ==
    /\ agent = "DRA"
    /\ pc = "report"
    /\ \E resp \in GenerateResponses :
        IF resp = "fail" THEN DRA_catch(ApiError, events) /\ UNCHANGED report
        ELSE /\ report' = [markdown |-> "text", followUpQuestions |-> "none",
                           knowledgeGaps |-> "none"]
             /\ pc' = "followups"
             /\ UNCHANGED <<events, isRunning, outcome>>
    /\ UNCHANGED <<agent, plan, qi, toAnalyze, si, content, synthesis, cancelLog,
                   shouldStop, allResults, searchResults, analyzed, raVars, fnVars>>

\* generateReport, lines 359-367: the follow-up generateJSON settles, outside any try
DRA_followupsReturn ==
    /\ agent = "DRA"
    /\ pc = "followups"
    /\ \E resp \in JsonResponses :
        IF resp = "parse_fail" THEN DRA_catch(ParseError, events) /\ UNCHANGED report
        ELSE /\ report' = [report EXCEPT !.followUpQuestions = "questions"]
             /\ events' = Append(events, Thought("Analyzer"))
             /\ pc' = "gaps"
             /\ UNCHANGED <<isRunning, outcome>>
    /\ UNCHANGED <<agent, plan, qi, toAnalyze, si, content, synthesis, cancelLog,
                   shouldStop, allResults, searchResults, analyzed, raVars, fnVars>>


\* DRA_gapsReturn changed: the gaps request without its try/catch
DRA_gapsReturn_noRecovery ==
    /\ agent = "DRA"
    /\ pc = "gaps"
    /\ \E resp \in JsonResponses :
        IF resp = "parse_fail"
        THEN DRA_catch(ParseError, events) /\ UNCHANGED report
        ELSE LET rep == [report EXCEPT !.knowledgeGaps = "gaps"]
                 results == compileResults(rep, synthesis, searchResults, analyzed)
             IN /\ report' = rep
                /\ events' = Append(events, CompleteEv(results))
                /\ outcome' = Returned(results)
                /\ isRunning' = FALSE
                /\ pc' = "done"
    /\ UNCHANGED <<agent, plan, qi, toAnalyze, si, content, synthesis, cancelLog,
                   shouldStop, allResults, searchResults, analyzed, raVars, fnVars>>

\* generateReport, lines 365-380 (the gaps request, inside a try), and research(),
\* lines 58-83 and 88-90: no check of the flag
DRA_gapsReturn ==
    /\ agent = "DRA"
    /\ pc = "gaps"
    /\ \E resp \in JsonResponses :
        LET rep == [report EXCEPT !.knowledgeGaps =
                        IF resp = "parse_fail" THEN "synthesis.gaps" ELSE "gaps"]
            results == compileResults(rep, synthesis, searchResults, analyzed)
        IN /\ report' = rep
           /\ events' = Append(events, CompleteEv(results))
           /\ outcome' = Returned(results)
    /\ isRunning' = FALSE
    /\ pc' = "done"
    /\ UNCHANGED <<agent, plan, qi, toAnalyze, si, content, synthesis, cancelLog,
                   shouldStop, allResults, searchResults, analyzed, raVars, fnVars>>

DRA_Next ==
    \/ DRA_research \/ DRA_planReturn \/ DRA_b1 \/ DRA_searchHead \/ DRA_searchReturn
    \/ DRA_searchDelay \/ DRA_b2 \/ DRA_analyzeHead \/ DRA_fetchReturn \/ DRA_analyzeReturn
    \/ DRA_analyzeDelay \/ DRA_b3 \/ DRA_synthReturn \/ DRA_b4 \/ DRA_reportReturn
    \/ DRA_followupsReturn \/ DRA_gapsReturn \/ DRA_stop

Next == RA_Next \/ DRA_Next

Spec == Init /\ [][Next]_vars

\* Bounds of the runs followed to their end under fairness
LiveQueries == 1     \* most sub-queries of the plan
LiveCancels == 1     \* most cancel calls

\* The steps of Next within those bounds
NextLive ==
    /\ Next
    /\ plan'.n <= LiveQueries
    /\ Len(cancelLog') <= LiveCancels

\* A step of research() itself: cancel leaves the position of the run where it is,
\* every other action moves it
RunStep == pc # "idle" /\ NextLive /\ pc' # pc

\* Every adapter call, content fetch, completion-service call and delay settles,
\* and the synchronous code behind it runs: a run that can take a step takes one
SpecLive == Init /\ [][NextLive]_vars /\ WF_vars(RunStep)

(***************************************************************************)
(* fetchContent of both searchers as a function of the url and of what the *)
(* HTTP request answers.  A body is modelled by its length.                *)
(***************************************************************************)
MaxLength == 8000        \* MultiSourceSearcher.fetchContent: options.maxLength || 8000
MarkerLen == 3           \* MultiSourceSearcher.fetchContent: + '...'
WebMaxLength == 15000    \* WebSearcher.fetchContent: content.slice(0, 15000)
ArxivFrameLen == 30      \* fetchArxivPaper: 'Title: ' + '\n\nAuthors: ' + '\n\nAbstract:\n'

NetworkError == "Request failed"              \* axios.get rejects
InvalidArxivUrl == "Invalid ArXiv URL"        \* fetchArxivPaper
InvalidWikipediaUrl == "Invalid Wikipedia URL" \* fetchWikipediaArticle

wikipediaOrg == <<"w", "i", "k", "i", "p", "e", "d", "i", "a", ".", "o", "r", "g">>

\* A url handed to fetchContent is [host, section, ident]: its host, the first
\* segment of its path and whether an identifier follows it (the digits of an
\* arXiv id, the title behind /wiki/).  What the request answers is [kind, len]:
\* it rejects ("throw"); it answers a body without the structure asked for
\* ("malformed"); it answers a body whose text has len characters ("ok").

FetchRejected(message) == [status |-> "rejected", content |-> 0, error |-> message]
FetchFailed(message) == [status |-> "fulfilled", content |-> 0, error |-> message]
Fetched(len) == [status |-> "fulfilled", content |-> len, error |-> "none"]

\* url.includes('arxiv.org/abs/') and url.includes('wikipedia.org')
routesToArxiv(url) == Includes(url.host, hostArxiv) /\ url.section = "abs"
routesToWikipedia(url) == Includes(url.host, wikipediaOrg)

\* fetchArxivPaper: try { id; request; cheerio (lenient) } catch { failed record }
fetchArxivPaper(url, resp) ==
    LET body == IF ~url.ident THEN FetchRejected(InvalidArxivUrl)
                ELSE IF resp.kind = "throw" THEN FetchRejected(NetworkError)
                ELSE Fetched(ArxivFrameLen + resp.len)
    IN IF body.status = "rejected" THEN FetchFailed(body.error) ELSE body

\* fetchWikipediaArticle: try { title; request; response.data.query.pages } catch
fetchWikipediaArticle(url, resp) ==
    LET body == IF ~(url.section = "wiki" /\ url.ident) THEN FetchRejected(InvalidWikipediaUrl)
                ELSE IF resp.kind = "throw" THEN FetchRejected(NetworkError)
                ELSE IF resp.kind = "malformed" THEN FetchRejected(TypeError)
                ELSE Fetched(resp.len)
    IN IF body.status = "rejected" THEN FetchFailed(body.error) ELSE body

\* MultiSourceSearcher.fetchContent: the two fast paths, else request, extraction,
\* truncation to maxLength with the marker; all inside try/catch
fetchContent(url, resp) ==
    LET body == IF routesToArxiv(url) THEN fetchArxivPaper(url, resp)
                ELSE IF routesToWikipedia(url) THEN fetchWikipediaArticle(url, resp)
                ELSE IF resp.kind = "throw" THEN FetchRejected(NetworkError)
                ELSE Fetched(IF resp.len > MaxLength THEN MaxLength + MarkerLen ELSE resp.len)
    IN IF body.status = "rejected" THEN FetchFailed(body.error) ELSE body

\* webFetchContent changed: the request and extraction without the try/catch
webFetchContent_noCatch(url, resp) ==
    IF resp.kind = "throw" THEN FetchRejected(NetworkError)
    ELSE Fetched(Min(resp.len, WebMaxLength))

\* WebSearcher.fetchContent: request, extraction, slice(0, 15000); inside try/catch
webFetchContent(url, resp) ==
    LET body == IF resp.kind = "throw" THEN FetchRejected(NetworkError)
                ELSE Fetched(Min(resp.len, WebMaxLength))
    IN IF body.status = "rejected" THEN FetchFailed(body.error) ELSE body

(***************************************************************************)
(* createResearchPlan of both agents as a function of the depth option and *)
(* of what generateJSON returns                                            *)
(***************************************************************************)
Depths == {"quick", "standard", "deep"}

\* DeepResearchAgent.createResearchPlan: { quick: 4, standard: 6, deep: 10 }[depth]
queryCount(depth) ==
    CASE depth = "quick" -> 4 [] depth = "standard" -> 6 [] depth = "deep" -> 10

\* ResearchAgent.createResearchPlan: depth === 'quick' ? 3 : depth === 'deep' ? 8 : 5
searchCount(depth) == IF depth = "quick" THEN 3 ELSE IF depth = "deep" THEN 8 ELSE 5

\* The count goes into the prompt (`asked`); the plan returned is the parsed
\* response as it is, `queries` being the length of its searchQueries.
createResearchPlan(ag, depth, resp) ==
    LET asked == IF ag = "RA" THEN searchCount(depth) ELSE queryCount(depth)
    IN IF resp.kind = "parse_fail"
       THEN [status |-> "rejected", error |-> ParseError, asked |-> asked, queries |-> 0]
       ELSE IF resp.kind = "null" \/ (ag = "RA" /\ resp.kind = "no_queries")
       THEN [status |-> "rejected", error |-> TypeError, asked |-> asked, queries |-> 0]
       ELSE [status |-> "fulfilled", error |-> "", asked |-> asked, queries |-> resp.n]

(***************************************************************************)
(* The pure functions on their own: SpecFn draws an input and applies      *)
(* searchAll or prioritizeSources to it once.                              *)
(***************************************************************************)
answersOf(kinds) ==
    [name \in AdapterNames |->
        CASE kinds[name] = "throw" -> Throws
          [] kinds[name] = "empty" -> Ok(<<>>)
          [] kinds[name] = "one" -> Ok(<<oneItem(name)>>)
          [] kinds[name] = "full" -> Ok(fullPage(name))]

\* Results as executeMultiSourceSearch accumulates them
ResultUniverse ==
    { withReliability(providerCall("duckduckgo", Ok(<<itemA1>>)).value[1]),
      withReliability(providerCall("duckduckgo", Ok(<<itemA2>>)).value[1]),
      withReliability(providerCall("wikipedia", Ok(<<itemWiki>>)).value[1]),
      withReliability(providerCall("github", Ok(<<itemGitHub>>)).value[1]),
      withReliability(providerCall("reddit", Ok(<<itemReddit>>)).value[1]),
      withReliability(providerCall("arxiv", Ok(<<itemArxiv>>)).value[1]) }

ListsUpTo(n) == UNION {[1..k -> ResultUniverse] : k \in 0..n}

\* The depth option and the plan the completion service returns for it
PlanInputs ==
    {[agent |-> a, depth |-> d, resp |-> r] :
        a \in {"RA", "DRA"}, d \in Depths,
        r \in {[kind |-> k, n |-> 0] : k \in {"parse_fail", "null", "no_queries"}}
                \cup {[kind |-> "ok", n |-> n] : n \in 0..MaxPlanLen}}

FetchLengths ==
    {0, MinContentLength, MinContentLength + 1, MaxLength, MaxLength + 1, WebMaxLength + 1}

FetchInputs ==
    {[searcher |-> s, url |-> [host |-> h, section |-> sec, ident |-> id], resp |-> r] :
        s \in {"MultiSourceSearcher", "WebSearcher"},
        h \in {hostArxiv, hostWikipedia, hostA},
        sec \in {"abs", "wiki", "other"},
        id \in BOOLEAN,
        r \in {[kind |-> "throw", len |-> 0], [kind |-> "malformed", len |-> 0]}
                \cup {[kind |-> "ok", len |-> len] : len \in FetchLengths}}

\* A host that contains the letters of a suffix entry without ending in it
hostEducative == <<"e", "d", "u", "c", "a", "t", "i", "v", "e", ".", "i", "o">>

\* The results assessReliability is given: every engine tag on every host
ReliabilityInputs ==
    {[title |-> <<"t">>, url |-> Url(h, 1), source |-> sourceTag(name),
      sourceEngine |-> engineTag(name)] :
        name \in AdapterNames,
        h \in {hostA, hostWwwA, hostGov, hostWikipedia, hostArxiv, hostHN, hostReddit,
               hostGitHub, hostEducative}}

\* The lists the Analysis stage is given: n results numbered in discovery order,
\* their reliability all equal or cycling through the tiers
MaxSourcesLen == 13
ReliabilityCycle == <<"high", "medium", "unknown">>

SourceList(n, cycling) ==
    [i \in 1..n |->
        [title |-> <<"t">>, url |-> Url(hostA, i),
         reliability |-> IF cycling THEN ReliabilityCycle[(i % 3) + 1] ELSE "medium"]]

SelectionInputs ==
    {[agent |-> ag, sources |-> SourceList(n, cycling)] :
        ag \in {"RA", "DRA"}, n \in 0..MaxSourcesLen, cycling \in BOOLEAN}

\* The list in the order the selection reads it: as given (DeepResearchAgent, already
\* prioritized), sorted in place by reliability (ResearchAgent)
rankedSources(ag, sources) == IF ag = "RA" THEN sortByReliability(sources) ELSE sources

FnInputs ==
    {[fn |-> "searchAll", answers |-> answersOf(kinds), list |-> <<>>, arg |-> <<>>] :
        kinds \in [AdapterNames -> {"throw", "empty", "one", "full"}]}
    \cup {[fn |-> "prioritizeSources", answers |-> emptyAnswers, list |-> l, arg |-> <<>>] :
            l \in ListsUpTo(MaxListLen)}
    \cup {[fn |-> "createResearchPlan", answers |-> emptyAnswers, list |-> <<>>, arg |-> x] :
            x \in PlanInputs}
    \cup {[fn |-> "fetchContent", answers |-> emptyAnswers, list |-> <<>>, arg |-> x] :
            x \in FetchInputs}
    \cup {[fn |-> "assessReliability", answers |-> emptyAnswers, list |-> <<>>, arg |-> x] :
            x \in ReliabilityInputs}
    \cup {[fn |-> "topSources", answers |-> emptyAnswers, list |-> <<>>, arg |-> x] :
            x \in SelectionInputs}
    \cup {[fn |-> "searchLoop", answers |-> answersOf(kinds), list |-> <<>>, arg |-> <<>>] :
            kinds \in [AdapterNames -> {"throw", "one"}]}
    \cup {[fn |-> "connection", answers |-> emptyAnswers, list |-> <<>>, arg |-> <<>>]}

InitFn ==
    /\ agent = "DRA"
    /\ InitAgent
    /\ fnIn \in FnInputs
    /\ fnOut = <<>>

agentVars == <<agent, pc, events, plan, qi, toAnalyze, si, content, synthesis, outcome,
               cancelLog, raVars, draVars>>

Fn_searchAll ==
    /\ fnIn.fn = "searchAll"
    /\ fnOut = <<>>
    /\ fnOut' = <<searchAll(sourcesToUse, fnIn.answers, MaxResults)>>
    /\ UNCHANGED <<fnIn, agentVars>>

Fn_prioritizeSources ==
    /\ fnIn.fn = "prioritizeSources"
    /\ fnOut = <<>>
    /\ fnOut' = <<prioritizeSources(fnIn.list)>>
    /\ UNCHANGED <<fnIn, agentVars>>

Fn_createResearchPlan ==
    /\ fnIn.fn = "createResearchPlan"
    /\ fnOut = <<>>
    /\ fnOut' = <<createResearchPlan(fnIn.arg.agent, fnIn.arg.depth, fnIn.arg.resp)>>
    /\ UNCHANGED <<fnIn, agentVars>>

Fn_fetchContent ==
    /\ fnIn.fn = "fetchContent"
    /\ fnOut = <<>>
    /\ fnOut' = <<IF fnIn.arg.searcher = "WebSearcher"
                  THEN webFetchContent(fnIn.arg.url, fnIn.arg.resp)
                  ELSE fetchContent(fnIn.arg.url, fnIn.arg.resp)>>
    /\ UNCHANGED <<fnIn, agentVars>>

(***************************************************************************)
(* The Search loop with the adapter calls of a sub-query settling one by   *)
(* one.  fnOut holds <<[query, stage, settled, order, value]>>: the        *)
(* sub-query being searched, whether searchAll is pending or has resolved, *)
(* the adapters whose call has completed or failed, the order in which     *)
(* they did, the results so far.                                           *)
(***************************************************************************)
\* allSettled changed: Promise.race, the join resolves with the first call that settles
allSettled_race(settled) == settled # {}

\* Promise.allSettled(searchPromises) resolves once every promise has settled
allSettled(settled) == settled = AdapterNames

\* executeMultiSourceSearch, lines 131-141, and searchAll, lines 18-21: the loop takes
\* the next sub-query and searchAll starts one call per source
Fn_dispatch ==
    /\ fnIn.fn = "searchLoop"
    /\ IF fnOut = <<>>
       THEN fnOut' = <<[query |-> 1, stage |-> "pending", settled |-> {}, order |-> <<>>,
                        value |-> <<>>]>>
       ELSE /\ fnOut[1].stage = "resolved"
            /\ fnOut[1].query < MaxQueries
            /\ fnOut' = <<[fnOut[1] EXCEPT !.query = @ + 1, !.stage = "pending",
                                           !.settled = {}, !.order = <<>>]>>
    /\ UNCHANGED <<fnIn, agentVars>>

\* One searchSource call completes or fails
Fn_settle ==
    /\ fnIn.fn = "searchLoop"
    /\ fnOut # <<>>
    /\ fnOut[1].stage = "pending"
    /\ \E name \in AdapterNames \ fnOut[1].settled :
           fnOut' = <<[fnOut[1] EXCEPT !.settled = @ \cup {name},
                                       !.order = Append(@, name)]>>
    /\ UNCHANGED <<fnIn, agentVars>>

\* Fn_resolve changed: the results are collected in the order the calls completed
Fn_resolve_completionOrder ==
    /\ fnIn.fn = "searchLoop"
    /\ fnOut # <<>>
    /\ fnOut[1].stage = "pending"
    /\ allSettled(fnOut[1].settled)
    /\ fnOut' = <<[fnOut[1] EXCEPT
                     !.stage = "resolved",
                     !.value = @ \o searchAll(fnOut[1].order, fnIn.answers, MaxResults).value]>>
    /\ UNCHANGED <<fnIn, agentVars>>

\* searchAll, lines 22-33, and executeMultiSourceSearch, lines 141-150: the join
\* resolves with one entry per call in the order of sources.map, whatever the order
\* of completion; forEach collects them by index; the results are accumulated
Fn_resolve ==
    /\ fnIn.fn = "searchLoop"
    /\ fnOut # <<>>
    /\ fnOut[1].stage = "pending"
    /\ allSettled(fnOut[1].settled)
    /\ fnOut' = <<[fnOut[1] EXCEPT
                     !.stage = "resolved",
                     !.value = @ \o searchAll(sourcesToUse, fnIn.answers, MaxResults).value]>>
    /\ UNCHANGED <<fnIn, agentVars>>

Fn_assessReliability ==
    /\ fnIn.fn = "assessReliability"
    /\ fnOut = <<>>
    /\ fnOut' = <<assessReliability(fnIn.arg)>>
    /\ UNCHANGED <<fnIn, agentVars>>

Fn_topSources ==
    /\ fnIn.fn = "topSources"
    /\ fnOut = <<>>
    /\ fnOut' = <<topSources(fnIn.arg.agent, rankedSources(fnIn.arg.agent, fnIn.arg.sources))>>
    /\ UNCHANGED <<fnIn, agentVars>>

(***************************************************************************)
(* server.js: one WebSocket connection.  fnOut holds <<[open, runs,        *)
(* session, stops]>>: whether the socket is open, the agents the research  *)
(* handler has created on this connection in order (isRunning and          *)
(* shouldStop of each), the index in runs of the agent sessions holds      *)
(* under the connection's sessionId (0: no entry), the stop requests       *)
(* handled.                                                                *)
(***************************************************************************)
MaxRuns == 2     \* most research requests on the connection

\* wss.on('connection'), lines 42-44: a fresh sessionId, nothing in sessions
Fn_connection ==
    /\ fnIn.fn = "connection"
    /\ fnOut = <<>>
    /\ fnOut' = <<[open |-> TRUE, runs |-> <<>>, session |-> 0, stops |-> 0]>>
    /\ UNCHANGED <<fnIn, agentVars>>

\* case 'research', lines 62-120, with a configured key and a valid query: a new
\* agent replaces the entry of sessionId, and research() starts (lines 22-23 of
\* DeepResearchAgent.js) and suspends at its first await
Fn_researchRequest ==
    /\ fnIn.fn = "connection"
    /\ fnOut # <<>>
    /\ fnOut[1].open
    /\ Len(fnOut[1].runs) < MaxRuns
    /\ fnOut' = <<[fnOut[1] EXCEPT
                     !.runs = Append(@, [isRunning |-> TRUE, shouldStop |-> FALSE]),
                     !.session = Len(fnOut[1].runs) + 1]>>
    /\ UNCHANGED <<fnIn, agentVars>>

\* case 'stop', lines 134-141: stop() on the agent sessions holds, if any
Fn_stopRequest ==
    /\ fnIn.fn = "connection"
    /\ fnOut # <<>>
    /\ fnOut[1].open
    /\ fnOut[1].stops < MaxCancels
    /\ fnOut' = <<[fnOut[1] EXCEPT
                     !.runs = [i \in 1..Len(@) |->
                                 IF i = fnOut[1].session
                                 THEN [@[i] EXCEPT !.shouldStop = TRUE]
                                 ELSE @[i]],
                     !.stops = @ + 1]>>
    /\ UNCHANGED <<fnIn, agentVars>>

\* ws.on('close'), lines 153-160: stop() on the agent sessions holds, entry deleted
Fn_close ==
    /\ fnIn.fn = "connection"
    /\ fnOut # <<>>
    /\ fnOut[1].open
    /\ fnOut' = <<[fnOut[1] EXCEPT
                     !.open = FALSE,
                     !.runs = [i \in 1..Len(@) |->
                                 IF i = fnOut[1].session
                                 THEN [@[i] EXCEPT !.shouldStop = TRUE]
                                 ELSE @[i]],
                     !.session = 0]>>
    /\ UNCHANGED <<fnIn, agentVars>>

\* research() of one agent of the connection returns or throws (finally, lines 88-90
\* of DeepResearchAgent.js); its handler resumes at line 120 or 122
Fn_researchEnds ==
    /\ fnIn.fn = "connection"
    /\ fnOut # <<>>
    /\ \E i \in 1..Len(fnOut[1].runs) :
           /\ fnOut[1].runs[i].isRunning
           /\ fnOut' = <<[fnOut[1] EXCEPT !.runs[i].isRunning = FALSE]>>
    /\ UNCHANGED <<fnIn, agentVars>>

NextFn ==
    \/ Fn_searchAll \/ Fn_prioritizeSources \/ Fn_createResearchPlan \/ Fn_fetchContent
    \/ Fn_assessReliability \/ Fn_topSources
    \/ Fn_dispatch \/ Fn_settle \/ Fn_resolve
    \/ Fn_connection \/ Fn_researchRequest \/ Fn_stopRequest \/ Fn_close \/ Fn_researchEnds

SpecFn == InitFn /\ [][NextFn]_vars

(***************************************************************************)
(* Observations of a run used by the properties below                      *)
(***************************************************************************)
\* The cancellation flag of the agent under consideration
Flag == IF agent = "RA" THEN aborted ELSE shouldStop

\* Position of a pipeline phase announced by an event; 0 for any other event
PhaseRank(e) ==
    CASE e.type = "status" /\ e.tag = "planning" -> 1
      [] e.type = "status" /\ e.tag = "searching" -> 2
      [] e.type = "status" /\ e.tag = "analyzing" -> 3
      [] e.type = "status" /\ e.tag = "synthesizing" -> 4
      [] e.type = "status" /\ e.tag = "reporting" -> 5
      [] e.type = "status" /\ e.tag = "complete" -> 6
      [] e.type = "complete" -> 6
      [] OTHER -> 0

IsPhaseEvent(e) == PhaseRank(e) > 0

\* The pipeline phases a sequence of events announces, in order
PhaseTraceOf(evs) ==
    LET s == SelectSeq(evs, IsPhaseEvent) IN [i \in 1..Len(s) |-> PhaseRank(s[i])]

PhaseTrace == PhaseTraceOf(events)

LastPhase == IF PhaseTrace = <<>> THEN 0 ELSE PhaseTrace[Len(PhaseTrace)]

\* The stage a control point of research() belongs to
StageOfPc(p) ==
    CASE p \in {"plan", "b1"} -> 1
      [] p \in {"searchHead", "search", "searchDelay", "b2"} -> 2
      [] p \in {"analyzeHead", "fetch", "analyze", "analyzeDelay", "b3"} -> 3
      [] p \in {"synth", "b4"} -> 4
      [] p \in {"report", "followups", "gaps"} -> 5
      [] OTHER -> 0

Count(type) == Cardinality({i \in 1..Len(events) : events[i].type = type})

\* cancel was called while research() was suspended at one of the labels in `at`
CancelledAt(at) == \E i \in 1..Len(cancelLog) : cancelLog[i] \in at

\* The result research() returned is the one of a completed run (DeepResearchAgent
\* returns nothing else)
ReturnedComplete ==
    /\ outcome.kind = "returned"
    /\ agent = "RA" => outcome.result[1].phase = "complete"

(***************************************************************************)
(* C1. In every run of research(), of either agent, the pipeline phases    *)
(* are announced only in the order planning, searching, analyzing,         *)
(* synthesizing, reporting, complete: the first phase is planning, every   *)
(* next announcement is of the current phase or of its successor (none is  *)
(* skipped, none re-entered), the phase announced is the one of the stage  *)
(* that is executing, and a run that does not end complete ends by the     *)
(* error exit (research() throws after emitting error) or by the           *)
(* cancellation exit (the flag is set and research() returns early).       *)
(***************************************************************************)
C1_PhaseOrder ==
    LET trace == PhaseTrace
        last == IF trace = <<>> THEN 0 ELSE trace[Len(trace)]
    IN /\ trace # <<>> => trace[1] = 1
       /\ \A i \in 1..(Len(trace) - 1) : trace[i + 1] \in {trace[i], trace[i] + 1}
       /\ pc \notin {"idle", "done"} => last = StageOfPc(pc)
       /\ pc = "idle" => trace = <<>>
       /\ pc = "done" =>
             \/ last = 6 /\ ReturnedComplete
             \/ /\ last < 6
                /\ outcome.kind = "threw"
                /\ events[Len(events)].type = "error"
             \/ /\ last < 5
                /\ outcome.kind = "returned"
                /\ Flag
                /\ ~ReturnedComplete

\* A run of DeepResearchAgent went through all six phases and returned
C1_Witness ==
    /\ agent = "DRA"
    /\ pc = "done"
    /\ PhaseTrace[Len(PhaseTrace)] = 6
    /\ Len(analyzed) > 0
    /\ ReturnedComplete

(***************************************************************************)
(* C2. The cancellation flag is checked before every state is entered: if  *)
(* the flag is set when a run stands at a phase boundary (a stage has      *)
(* returned, or the calls of Reporting are outstanding and complete comes  *)
(* next), the next step announces no pipeline phase and moves to no later  *)
(* stage.                                                                  *)
(***************************************************************************)
BoundaryPcs == {"b1", "b2", "b3", "b4", "report", "followups", "gaps"}

C2_FlagCheckedAtEveryBoundary ==
    [][(Flag /\ pc \in BoundaryPcs /\ pc' # pc) =>
          /\ PhaseTraceOf(events') = PhaseTraceOf(events)
          /\ StageOfPc(pc') <= StageOfPc(pc)]_vars

(***************************************************************************)
(* C3. When cancel (abort or stop) was called after the Search phase had   *)
(* begun and before Reporting completed, research() ends by returning a    *)
(* result whose phase is aborted: it does not throw, no error event is     *)
(* emitted and the run does not end complete.                              *)
(***************************************************************************)
CancelWindow == AwaitPcs \ {"plan"}

C3_CancelYieldsAbortedResult ==
    (pc = "done" /\ CancelledAt(CancelWindow)) =>
        /\ outcome.kind = "returned"
        /\ Count("error") = 0
        /\ Count("complete") = 0
        /\ agent = "RA" /\ outcome.result[1].phase = "aborted"

(***************************************************************************)
(* C4. A run that had accumulated sources and ended because the flag was   *)
(* observed delivers a result, and the sources and findings of that result *)
(* hold everything the run had accumulated.                                *)
(***************************************************************************)
EndedByCancellation ==
    /\ pc = "done"
    /\ IF agent = "RA" THEN outcome.kind = "returned" /\ ~ReturnedComplete
       ELSE outcome.kind = "threw" /\ outcome.error = StoppedError

Urls(s) == {s[i].url : i \in 1..Len(s)}

C4_NoPartialResultDiscarded ==
    (EndedByCancellation /\ Len(state.sources) + Len(allResults) > 0) =>
        /\ outcome.kind = "returned"
        /\ IF agent = "RA"
           THEN /\ Range(state.sources) \subseteq Range(outcome.result[1].sources)
                /\ Range(state.findings) \subseteq Range(outcome.result[1].findings)
           ELSE /\ Urls(analyzed) \subseteq Urls(outcome.result[1].sources)
                /\ Urls(SelectSeq(analyzed, hasAnalysis))
                      \subseteq Urls(outcome.result[1].findings)

(***************************************************************************)
(* C5. When a fatal failure reaches research() (the plan does not parse or *)
(* has the wrong shape, the synthesis does not parse, the report is not    *)
(* generated), the run is over: research() throws the failure to its       *)
(* caller, exactly one error event was emitted, it is the last event and   *)
(* carries the failure's message, no complete was announced or emitted,    *)
(* and ResearchAgent's state is in phase error. A plan that did not parse  *)
(* or is null ends the run in the Planning phase; a plan without queries   *)
(* gets no further than the entry of Search.                               *)
(***************************************************************************)
C5_FatalFailureEndsInError ==
    /\ outcome.kind = "threw" =>
          /\ pc = "done"
          /\ Count("error") = 1
          /\ events[Len(events)] = ErrorEv(outcome.error)
          /\ Count("complete") = 0
          /\ LastPhase < 6
          /\ agent = "RA" => state.phase = "error"
    /\ Count("error") > 0 => outcome.kind = "threw"
    /\ plan.kind \in {"parse_fail", "null"} => outcome.kind = "threw" /\ LastPhase = 1
    /\ (plan.kind = "no_queries" /\ pc # "b1") =>
          /\ outcome.kind = "threw"
          /\ LastPhase <= 2
          /\ Count("source") = 0

\* The synthesis did not parse: the run ended in phase synthesizing with the
\* parser's message
C5_Witness ==
    /\ pc = "done"
    /\ outcome.kind = "threw"
    /\ outcome.error = ParseError
    /\ LastPhase = 4
    /\ events[Len(events)] = ErrorEv(ParseError)

(***************************************************************************)
(* C6. The complete event is emitted at most once in a run and only after  *)
(* Reporting returned successfully; a run that ends in error emits none    *)
(* and a run on which cancel was called emits none.                        *)
(***************************************************************************)
C6_CompleteOnlyAfterReporting ==
    /\ Count("complete") <= 1
    /\ Count("complete") = 1 =>
          /\ pc = "done"
          /\ ReturnedComplete
          /\ \E i \in 1..Len(PhaseTrace) : PhaseTrace[i] = 5
    /\ outcome.kind = "threw" => Count("complete") = 0
    /\ CancelledAt(AwaitPcs) => Count("complete") = 0

(***************************************************************************)
(* C7. cancel() is idempotent: a call of abort() or stop() made during a   *)
(* run when the flag is already set changes neither the agent's state nor  *)
(* the sequence of emitted events.                                         *)
(***************************************************************************)
C7_CancelIdempotent ==
    [][(Len(cancelLog') > Len(cancelLog) /\ pc \in AwaitPcs /\ Flag) =>
          /\ Flag'
          /\ state' = state
          /\ events' = events]_vars

(***************************************************************************)
(* C8. Fan-out fault isolation in searchAll: when one adapter throws and   *)
(* the others succeed, searchAll resolves and each result of a succeeding  *)
(* adapter is in the output, itself or as the result kept for its          *)
(* deduplication key.                                                      *)
(***************************************************************************)
\* The results of the adapters that answered, in adapter order, as searchSource
\* hands them to the aggregation
succeeded(answers) ==
    Flatten([i \in 1..Len(sourcesToUse) |->
                IF answers[sourcesToUse[i]].kind = "ok"
                THEN searchSource(sourcesToUse[i], answers[sourcesToUse[i]]).value
                ELSE <<>>])

Keys(results) == {dedupKey(results[i]) : i \in 1..Len(results)}

SearchAllApplied == fnIn.fn = "searchAll" /\ fnOut # <<>>

OneAdapterThrows ==
    Cardinality({name \in AdapterNames : fnIn.answers[name].kind = "throw"}) = 1

C9_NoTwoEntriesShareKey ==
    \A i, j \in 1..Len(searchResults) :
        i # j => ~(/\ extractDomain(searchResults[i].url) = extractDomain(searchResults[j].url)
                   /\ Slice(searchResults[i].title, TitlePrefixLen)
                        = Slice(searchResults[j].title, TitlePrefixLen))

(***************************************************************************)
(* C10. prioritizeSources returns the deduplicated results (one entry per  *)
(* url, the first discovered) in non-increasing order of composite score   *)
(* (reliability weight + source-type weight); results of equal score keep  *)
(* their discovery order.                                                  *)
(***************************************************************************)
\* Index at which a url is first discovered in a list
FirstIdx(list, url) ==
    CHOOSE i \in 1..Len(list) :
        list[i].url = url /\ \A j \in 1..(i - 1) : list[j].url # url

Weight(r) ==
    (CASE r.reliability = "high" -> 3 [] r.reliability = "medium" -> 2 [] OTHER -> 1)
    + (CASE r.source \in {"academic"} -> 3
         [] r.source \in {"encyclopedia", "tech-news", "code"} -> 2
         [] OTHER -> 1)

C10_SortedStable ==
    (fnIn.fn = "prioritizeSources" /\ fnOut # <<>>) =>
        LET in == fnIn.list
            out == fnOut[1]
        IN /\ Urls(out) = Urls(in)
           /\ Len(out) = Cardinality(Urls(in))
           /\ \A i \in 1..Len(out) : out[i] = in[FirstIdx(in, out[i].url)]
           /\ \A i \in 1..(Len(out) - 1) : Weight(out[i]) >= Weight(out[i + 1])
           /\ \A i, j \in 1..Len(out) :
                 (i < j /\ Weight(out[i]) = Weight(out[j])) =>
                    FirstIdx(in, out[i].url) < FirstIdx(in, out[j].url)

\* A list with a repeated url and a tie was reordered
C10_Witness ==
    /\ fnIn.fn = "prioritizeSources"
    /\ fnOut # <<>>
    /\ Len(fnIn.list) = MaxListLen
    /\ Len(fnOut[1]) >= 2
    /\ fnOut[1] # fnIn.list
    /\ \E i, j \in 1..Len(fnOut[1]) : i < j /\ Weight(fnOut[1][i]) = Weight(fnOut[1][j])
    /\ \E i \in 1..(Len(fnOut[1]) - 1) : Weight(fnOut[1][i]) > Weight(fnOut[1][i + 1])

(***************************************************************************)
(* C11. Whenever Planning succeeds, the number of sub-queries handed to    *)
(* the Search stage is the count configured for the depth: 4 for quick, 6  *)
(* for standard, 10 for deep, whatever list the completion service         *)
(* returned.                                                               *)
(***************************************************************************)
DocumentedCount(depth) ==
    CASE depth = "quick" -> 4 [] depth = "standard" -> 6 [] depth = "deep" -> 10

C11_QueryCountPerDepth ==
    (fnIn.fn = "createResearchPlan" /\ fnOut # <<>> /\ fnOut[1].status = "fulfilled") =>
        fnOut[1].queries = DocumentedCount(fnIn.arg.depth)

(***************************************************************************)
(* C12. Zero-findings fallback, in both agents: when Analysis produced no  *)
(* Findings, no completion-service call is outstanding in the Synthesis    *)
(* stage and the synthesis is the fixed canned one.                        *)
(***************************************************************************)
\* The Findings of the run: ResearchAgent's state.findings, DeepResearchAgent's
\* analysed sources that have an analysis
NoFindings ==
    IF agent = "RA" THEN Len(state.findings) = 0
    ELSE Len(SelectSeq(analyzed, hasAnalysis)) = 0

C13_FollowUpFailureRecovered ==
    [][(pc = "followups" /\ pc' # "followups") =>
          /\ pc' = "gaps"
          /\ outcome'.kind # "threw"]_vars

FindingsOf(st, done) == IF agent = "RA" THEN st.findings ELSE SelectSeq(done, hasAnalysis)

C15_AnalysisFailureRecovered ==
    /\ []((pc = "b3" /\ ~Flag) => si = Len(toAnalyze) + 1)
    /\ [][(pc \in {"fetch", "analyze"} /\ pc' # pc) =>
             /\ pc' \in {"analyze", "analyzeDelay", "analyzeHead"}
             /\ outcome' = outcome
             /\ \A i \in 1..Len(events') : events'[i].type # "error"
             /\ Len(FindingsOf(state', analyzed')) <= Len(FindingsOf(state, analyzed)) + 1
             /\ pc = "fetch" => FindingsOf(state', analyzed') = FindingsOf(state, analyzed)]_vars

\* The first selected source gave no Finding, the second one did, and the run
\* completed
C15_Witness ==
    /\ pc = "done"
    /\ ReturnedComplete
    /\ Len(toAnalyze) >= 2
    /\ Len(FindingsOf(state, analyzed)) = 1
    /\ IF agent = "RA" THEN state.findings[1].source.url = toAnalyze[2].url
       ELSE FindingsOf(state, analyzed)[1].url = toAnalyze[2].url

(***************************************************************************)
(* C16. Every entry of the findings of the result research() returns has   *)
(* an analysis that succeeded and is non-empty: no source whose analysis   *)
(* is null or has no key points is among the findings.                     *)
(***************************************************************************)
C16_FindingsHaveAnalysis ==
    (pc = "done" /\ outcome.kind = "returned") =>
        \A i \in 1..Len(outcome.result[1].findings) :
            outcome.result[1].findings[i].analysis = "ok"

(***************************************************************************)
(* C17. fetchContent of either searcher, the arXiv and Wikipedia fast      *)
(* paths included, never rejects: when the request fails, the url has no   *)
(* identifier for its fast path or the answer lacks the structure read,    *)
(* it resolves to a record with an error reason and an empty body.         *)
(***************************************************************************)
FetchApplied == fnIn.fn = "fetchContent" /\ fnOut # <<>>

\* The fetch or the parse underneath fails
FetchFails(in) ==
    \/ in.resp.kind = "throw"
    \/ /\ in.searcher = "MultiSourceSearcher"
       /\ \/ in.url.host = hostArxiv /\ in.url.section = "abs" /\ ~in.url.ident
          \/ /\ in.url.host = hostWikipedia
             /\ ~(in.url.section = "wiki" /\ in.url.ident) \/ in.resp.kind = "malformed"

C17_FetchContentNeverThrows ==
    FetchApplied =>
        /\ fnOut[1].status = "fulfilled"
        /\ FetchFails(fnIn.arg) <=> fnOut[1].error # "none"
        /\ fnOut[1].error # "none" => fnOut[1].content = 0

\* The Wikipedia fast path got an answer without `query`; the record says so
C17_Witness ==
    /\ FetchApplied
    /\ fnIn.arg.searcher = "MultiSourceSearcher"
    /\ fnIn.arg.url = [host |-> hostWikipedia, section |-> "wiki", ident |-> TRUE]
    /\ fnIn.arg.resp.kind = "malformed"
    /\ fnOut[1] = FetchFailed(TypeError)

(***************************************************************************)
(* C18. A source event is emitted only for a new result: within one run no *)
(* two source events carry the same result (same url and same              *)
(* deduplication key), and every entry of the aggregated list has had a    *)
(* source event.                                                           *)
(***************************************************************************)
\* The list the Search stage hands on: state.sources (ResearchAgent), the return
\* value of executeMultiSourceSearch (DeepResearchAgent)
Aggregated == IF agent = "DRA" THEN searchResults ELSE state.sources

C18_SourceEventOnlyForNewResult ==
    LET evs == events
        idx == {i \in 1..Len(evs) : evs[i].type = "source"}
        final == Aggregated
    IN /\ \A i, j \in idx :
            i < j => ~ /\ evs[i].data[1].url = evs[j].data[1].url
                       /\ dedupKey(evs[i].data[1]) = dedupKey(evs[j].data[1])
       /\ \A k \in 1..Len(final) : \E i \in idx : evs[i].data[1].url = final[k].url

(***************************************************************************)
(* C19. Events across stages are ordered: when a stage emits a plan,       *)
(* source, finding or thought event, the last stage-entry status event     *)
(* emitted before it is the one of that stage (so the event comes after    *)
(* the stage's own status event and before the next stage's).              *)
(***************************************************************************)
\* The labels at which research() itself runs between two stages; a thought
\* emitted in such a step comes from the head of the stage being entered
StageEntryPcs == {"idle", "b1", "b2", "b3", "b4"}

StageEventTypes == {"plan", "source", "finding", "thought"}

\* The stage whose code emits event e in the step being taken
ProducingStage(e) ==
    IF pc \in StageEntryPcs /\ e.type = "thought" THEN StageOfPc(pc') ELSE StageOfPc(pc)

\* The stage announced by the last stage-entry status event of evs; 0 if none
StageAnnounced(evs) ==
    LET trace == PhaseTraceOf(evs) IN IF trace = <<>> THEN 0 ELSE trace[Len(trace)]

C19_StageEventsInsideStage ==
    [][\A i \in (Len(events) + 1)..Len(events') :
          events'[i].type \in StageEventTypes =>
              StageAnnounced(SubSeq(events', 1, i - 1)) = ProducingStage(events'[i])]_vars

\* A completed run in which every kind of stage event was emitted
C19_Witness ==
    /\ pc = "done"
    /\ ReturnedComplete
    /\ LET types == {events[i].type : i \in 1..Len(events)}
       IN StageEventTypes \subseteq types

(***************************************************************************)
(* C20. The result DeepResearchAgent.research returns on completion        *)
(* carries the whole aggregated search output: every entry of it is in     *)
(* sources, and the length of sources equals stats.totalSources.           *)
(***************************************************************************)
C20_ResultCarriesAllSources ==
    (agent = "DRA" /\ pc = "done" /\ outcome.kind = "returned") =>
        LET results == outcome.result[1]
        IN /\ Urls(searchResults) \subseteq Urls(results.sources)
           /\ Len(results.sources) = results.stats.totalSources

(***************************************************************************)
(* C21. In every result DeepResearchAgent.research returns on completion,  *)
(* stats.sourcesAnalyzed equals the number of findings.                    *)
(***************************************************************************)
C21_SourcesAnalyzedCountsFindings ==
    (agent = "DRA" /\ pc = "done" /\ outcome.kind = "returned") =>
        LET results == outcome.result[1]
        IN results.stats.sourcesAnalyzed = Len(results.findings)

(***************************************************************************)
(* C22. The Analysis stage processes its selected sources one at a time:   *)
(* while the fetch or the analysis call of source i is pending, every      *)
(* source before i has settled and no later source has been started.       *)
(***************************************************************************)
C22_AnalysisOneAtATime ==
    pc \in {"fetch", "analyze"} =>
        LET before == {toAnalyze[k].url : k \in 1..(si - 1)}
            evs == events
        IN /\ si \in 1..Len(toAnalyze)
           /\ agent = "DRA" => Urls(analyzed) = before
           /\ agent = "RA" =>
                /\ {state.findings[k].source.url : k \in 1..Len(state.findings)} \subseteq before
                /\ Cardinality({k \in 1..Len(evs) : evs[k] = Thought("Analyzer")}) = si

\* The analysis call of the second source is pending
C22_Witness ==
    /\ pc = "analyze"
    /\ si = 2

(***************************************************************************)
(* C23. The adapter calls of one sub-query are joined with settle-all      *)
(* semantics: searchAll resolves, and the fan-out of the next sub-query is *)
(* dispatched, only when every adapter call of the current sub-query has   *)
(* completed or failed.                                                    *)
(***************************************************************************)
InSearchLoop == fnIn.fn = "searchLoop" /\ fnOut # <<>>

C23_SettleAllJoin ==
    /\ [](InSearchLoop /\ fnOut[1].stage = "resolved" => fnOut[1].settled = AdapterNames)
    /\ [][(InSearchLoop /\ fnOut'[1].query > fnOut[1].query) =>
             fnOut[1].stage = "resolved" /\ fnOut[1].settled = AdapterNames]_vars

\* The second sub-query has been dispatched and some of its calls are pending
C23_Witness ==
    /\ InSearchLoop
    /\ fnOut[1].query = 2
    /\ fnOut[1].stage = "pending"
    /\ fnOut[1].settled # {}
    /\ fnOut[1].settled # AdapterNames

(***************************************************************************)
(* C24. A status event carrying the new phase is emitted on every phase    *)
(* transition of a run: while a stage runs, the last stage status event is *)
(* the one of that stage; a run that has ended in complete, in error or    *)
(* after a cancel has emitted the status event of that phase.              *)
(***************************************************************************)
HasStatus(phase) == \E i \in 1..Len(events) : events[i] = Status(phase)

C24_StatusOnEveryTransition ==
    /\ StageOfPc(pc) > 0 => StageAnnounced(events) = StageOfPc(pc)
    /\ pc = "done" =>
        /\ outcome.kind = "threw" => HasStatus("error")
        /\ (outcome.kind = "returned" /\ ReturnedComplete) => HasStatus("complete")
        /\ CancelledAt(AwaitPcs) => HasStatus("aborted")

(***************************************************************************)
(* The WebSocket handler of server.js around a run of DeepResearchAgent:   *)
(* the messages it has sent to the client.  Each listener forwards its     *)
(* event under the event's type; `started` precedes the run; the catch     *)
(* around research() sends an error message when research() rejects.       *)
(***************************************************************************)
WsMessage(type, text) == [type |-> type, text |-> text]

\* agent.on(<type>, ...) => ws.send({type, ...})
forward(e) == WsMessage(e.type, e.tag)

wsSent ==
    (<<WsMessage("started", "")>> \o [i \in 1..Len(events) |-> forward(events[i])])
    \o (IF pc = "done" /\ outcome.kind = "threw"
        THEN <<WsMessage("error", outcome.error)>>
        ELSE <<>>)

(***************************************************************************)
(* C25. For a run started through the WebSocket handler, a fatal error in  *)
(* the agent results in exactly one message of type error sent to the      *)
(* client.                                                                 *)
(***************************************************************************)
C25_OneErrorMessage ==
    (agent = "DRA" /\ pc = "done" /\ outcome.kind = "threw") =>
        LET sent == wsSent
        IN Cardinality({i \in 1..Len(sent) : sent[i].type = "error"}) = 1

(***************************************************************************)
(* C26. assessReliability returns, in this precedence: high for a result   *)
(* of a curated provider whatever its url; else high for a domain that     *)
(* matches a high-trust domain or ends in .gov or .edu; else medium for a  *)
(* domain that matches a medium-trust domain; else the baseline tier.      *)
(***************************************************************************)
EndsWith(s, t) == Len(s) >= Len(t) /\ SubSeq(s, Len(s) - Len(t) + 1, Len(s)) = t

\* The entries of the high-trust list that are domains, and the two that are suffixes
IsDomainEntry(d) == Includes(d, <<".">>)

StatedTier(source) ==
    LET domain == extractDomain(source.url)
    IN IF source.sourceEngine \in {"Tavily", "ArXiv", "Wikipedia"} THEN "high"
       ELSE IF \E i \in 1..Len(highReliability) :
                  IF IsDomainEntry(highReliability[i])
                  THEN Includes(domain, highReliability[i])
                  ELSE EndsWith(domain, <<".">> \o highReliability[i])
            THEN "high"
       ELSE IF \E i \in 1..Len(mediumReliability) : Includes(domain, mediumReliability[i])
            THEN "medium"
       ELSE "standard"

C26_ReliabilityPrecedence ==
    (fnIn.fn = "assessReliability" /\ fnOut # <<>>) =>
        /\ fnOut[1] \in {"high", "medium", "standard"}
        /\ fnOut[1] = StatedTier(fnIn.arg)

(***************************************************************************)
(* C27. Cancellation inside the Search loop is observed between            *)
(* sub-queries only: with the flag set no further sub-query is dispatched, *)
(* and a search in flight when the flag was set still finishes, its        *)
(* results accumulated as without the flag.                                *)
(***************************************************************************)
C27_CancelBetweenSubQueries ==
    [][/\ (Flag /\ pc = "searchHead") => pc' # "search"
       /\ (Flag /\ pc = "search" /\ pc' # "search") =>
             /\ pc' = "searchDelay"
             /\ outcome' = outcome
             /\ IF agent = "DRA"
                THEN \E answers \in RunAnswers :
                        LET r == searchAll(sourcesToUse, answers, MaxResults).value
                        IN /\ Len(allResults') = Len(allResults) + Len(r)
                           /\ \A k \in 1..Len(r) :
                                 allResults'[Len(allResults) + k].url = r[k].url
                ELSE \E resp \in RA_RunAnswers :
                        state'.sources = pushNew(state.sources, webSearch(resp))]_vars

\* The flag was set during the first search of a plan with two sub-queries; the
\* results of that search are in the collection and the loop has ended
C27_Witness ==
    /\ Flag
    /\ CancelledAt({"search"})
    /\ pc = "b2"
    /\ qi = 2
    /\ plan.n = 2
    /\ IF agent = "DRA" THEN Len(allResults) > 0 ELSE Len(state.sources) > 0

(***************************************************************************)
(* C28. The body MultiSourceSearcher.fetchContent returns is bounded on    *)
(* every path: its length never exceeds the maximum length plus the        *)
(* length of the truncation marker, and the marker is appended exactly     *)
(* when the extracted text was longer than the maximum length.             *)
(***************************************************************************)
\* The length of the text extracted from the answer, before any truncation
ExtractedLen(in) ==
    IF routesToArxiv(in.url) THEN ArxivFrameLen + in.resp.len ELSE in.resp.len

C28_BodyBounded ==
    (FetchApplied /\ fnIn.arg.searcher = "MultiSourceSearcher") =>
        /\ fnOut[1].content <= MaxLength + MarkerLen
        /\ fnOut[1].error = "none" =>
              fnOut[1].content = IF ExtractedLen(fnIn.arg) > MaxLength
                                 THEN MaxLength + MarkerLen
                                 ELSE ExtractedLen(fnIn.arg)

(***************************************************************************)
(* C29. The Analysis stage takes the top K of the ranked list (K = 12 in   *)
(* DeepResearchAgent, 8 in ResearchAgent): the selection has at most K     *)
(* entries and is the ranked list's prefix, so no entry is selected while  *)
(* one ranked above it is left out.                                        *)
(***************************************************************************)
TopK(ag) == IF ag = "DRA" THEN MaxToAnalyze ELSE RA_MaxToAnalyze

C29_TopKSelected ==
    (fnIn.fn = "topSources" /\ fnOut # <<>>) =>
        LET ranked == rankedSources(fnIn.arg.agent, fnIn.arg.sources)
            selected == fnOut[1]
        IN /\ Len(selected) <= TopK(fnIn.arg.agent)
           /\ Len(selected) <= Len(ranked)
           /\ \A k \in 1..Len(selected) : selected[k] = ranked[k]
           /\ Len(selected) < Len(ranked) => Len(selected) = TopK(fnIn.arg.agent)

\* More than K sources were ranked and K of them selected
C29_Witness ==
    /\ fnIn.fn = "topSources"
    /\ fnOut # <<>>
    /\ fnIn.arg.agent = "DRA"
    /\ Len(fnIn.arg.sources) > MaxToAnalyze
    /\ Len(fnOut[1]) = MaxToAnalyze

(***************************************************************************)
(* C30. ResearchAgent.analyzeSources sorts by reliability before taking    *)
(* the top 8: in the sorted list every high source precedes every medium   *)
(* source, which precedes every unknown source, and a high source is never *)
(* left out of the selection while a medium or unknown one is in it.       *)
(***************************************************************************)
TierRank(reliability) ==
    CASE reliability = "high" -> 0 [] reliability = "medium" -> 1 [] OTHER -> 2

C30_HighReliabilityFirst ==
    (fnIn.fn = "topSources" /\ fnOut # <<>> /\ fnIn.arg.agent = "RA") =>
        LET ranked == rankedSources("RA", fnIn.arg.sources)
            selected == fnOut[1]
        IN /\ \A i, j \in 1..Len(ranked) :
                 i < j => TierRank(ranked[i].reliability) <= TierRank(ranked[j].reliability)
           /\ \A i \in (Len(selected) + 1)..Len(ranked) :
                 ranked[i].reliability = "high" =>
                     \A k \in 1..Len(selected) : selected[k].reliability = "high"

(***************************************************************************)
(* C31. In ResearchAgent, state.sources is written only by the Search      *)
(* stage (and reset when research() starts): every other step leaves it    *)
(* the same list in the same order; state.findings is appended to only by  *)
(* the Analysis stage.                                                     *)
(***************************************************************************)
C31_SourcesWrittenOnlyBySearch ==
    [][agent = "RA" =>
          /\ pc \notin {"idle", "search"} => state'.sources = state.sources
          /\ pc \notin {"idle", "analyze"} => state'.findings = state.findings]_vars

(***************************************************************************)
(* C32. At every moment of a ResearchAgent run, state.phase (as reported   *)
(* by getResults) equals the phase named in the most recently emitted      *)
(* status event.                                                           *)
(***************************************************************************)
C32_PhaseTracksStatus ==
    LET evs == events
        idx == {i \in 1..Len(evs) : evs[i].type = "status"}
    IN (agent = "RA" /\ pc # "idle" /\ idx # {}) =>
          LET last == CHOOSE i \in idx : \A j \in idx : j <= i
          IN getResults(state).phase = evs[last].tag

(***************************************************************************)
(* C33. aborted is terminal: after ResearchAgent.abort has emitted the     *)
(* status event with phase aborted during a run, the run emits no further  *)
(* source, finding, thought or status event (a repeated abort() aside).    *)
(***************************************************************************)
C33_AbortedIsTerminal ==
    [][(agent = "RA" /\ aborted /\ pc \notin {"idle", "done"}) =>
          \A i \in (Len(events) + 1)..Len(events') :
              \/ events'[i] = Status("aborted")
              \/ events'[i].type \notin {"source", "finding", "thought", "status"}]_vars

(***************************************************************************)
(* C34. Termination: with every call and delay settling, a run of          *)
(* research() that has started eventually ends in exactly one terminal     *)
(* outcome (complete, error or aborted), returning or throwing, whether or *)
(* not cancel is invoked.                                                  *)
(***************************************************************************)
\* How the run ended, read from what it emitted and handed to its caller: the
\* complete event, the error event, or an early return on the flag
TerminalOutcomes ==
    {o \in {"complete", "error", "aborted"} :
        \/ o = "complete" /\ Count("complete") > 0
        \/ o = "error" /\ Count("error") > 0
        \/ o = "aborted" /\ outcome.kind = "returned" /\ ~ReturnedComplete}

Terminated ==
    /\ pc = "done"
    /\ outcome.kind \in {"returned", "threw"}
    /\ Cardinality(TerminalOutcomes) = 1
    /\ outcome.kind = "threw" <=> "error" \in TerminalOutcomes
    /\ "aborted" \in TerminalOutcomes => Flag

C34_Termination == [](pc # "idle" => <>Terminated)

\* A run in which cancel was invoked has ended
C34_Witness ==
    /\ Terminated
    /\ CancelledAt(AwaitPcs)

(***************************************************************************)
(* C35. With the adapter responses fixed, the results the Search stage     *)
(* accumulates (the list it ranks and returns, and the order of the source *)
(* events) are the same under every interleaving of adapter completions:   *)
(* they depend only on the configured adapter order and the responses.     *)
(***************************************************************************)
RECURSIVE Repeat(_, _)
Repeat(s, n) == IF n = 0 THEN <<>> ELSE s \o Repeat(s, n - 1)

OnConnection == fnIn.fn = "connection" /\ fnOut # <<>>

C36_StopReachesEveryRun ==
    [][(OnConnection /\ (fnOut'[1].stops > fnOut[1].stops \/ ~fnOut'[1].open)) =>
          \A i \in 1..Len(fnOut'[1].runs) :
              fnOut'[1].runs[i].isRunning => fnOut'[1].runs[i].shouldStop]_vars

(***************************************************************************)
(* C37. In DeepResearchAgent.analyzeSourcesDeep every selected source      *)
(* contributes exactly one entry to analyzed, and a completed run has      *)
(* emitted as many finding events as its result lists findings, whatever   *)
(* the completion service answers.                                         *)
(***************************************************************************)
C37_OneEntryOneFinding ==
    agent = "DRA" =>
        /\ pc = "analyzeHead" => Len(analyzed) = si - 1
        /\ (pc = "done" /\ outcome.kind = "returned") =>
              /\ Len(analyzed) = Len(toAnalyze)
              /\ Count("finding") = Len(outcome.result[1].findings)

(***************************************************************************)
(* C38. A cancel request is never lost: once cancel has been called the    *)
(* flag stays set until the run it targets has terminated; a cancel issued *)
(* before research() begins executing is not cleared by it.                *)
(***************************************************************************)
C38_CancelNeverLost == [][(Flag /\ pc # "done") => Flag']_vars

====
